---- MODULE Spec2Model ----
(***************************************************************************)
(* A model of the browse / classify / write pipeline of the Algolia CLI:   *)
(* BaseAlgoliaAction (browseRecords, saveRecords, deleteRecords, execute), *)
(* the transform policies built on it, the ValidationService predicates    *)
(* and BatchProcessor.processItems.  The hosted index is modelled as an    *)
(* ordered list of items reachable through browse / saveObjects /          *)
(* deleteObjects.                                                          *)
(***************************************************************************)
EXTENDS Integers, Sequences, FiniteSets, TLC

(***************************************************************************)
(* Bounds of the model.                                                    *)
(***************************************************************************)
MaxRecords == 3
MaxBatchSize == 2

\* The number of times a command is started again on the index it left.
MaxRuns == 2

\* browseRecords: const batchSize = this.options.batchSize || 1000
DefaultBatchSize == 1000

\* processInParallel: maxConcurrency: number = 10.
DefaultConcurrency == 10

\* ConfigurationManager.getBatchSize: Math.min(override, 10000).
BatchSizeCap == 10000

(***************************************************************************)
(* JavaScript values.  A field of a fetched item is a tagged value; a      *)
(* field that is not present reads as undefined.                           *)
(***************************************************************************)
\* An integer number h * 10^9 + l with 0 <= l < 10^9: the timestamps of the
\* program (seconds, milliseconds, microseconds) exceed 32 bits.  A negative
\* number has a negative h: B(-1, 999999999) is -1.
B(h, l) == [hi |-> h, lo |-> l, half |-> 0]

\* The number h * 10^9 + l + 0.5: the numbers of the model that are not
\* integers.
Half(h, l) == [hi |-> h, lo |-> l, half |-> 1]

Zero == B(0, 0)

LessEq(a, b) ==
  \/ a.hi < b.hi
  \/ a.hi = b.hi /\ a.lo < b.lo
  \/ a.hi = b.hi /\ a.lo = b.lo /\ a.half <= b.half

Less(a, b) ==
  \/ a.hi < b.hi
  \/ a.hi = b.hi /\ a.lo < b.lo
  \/ a.hi = b.hi /\ a.lo = b.lo /\ a.half < b.half

\* Math.floor(a)
Floor(a) == B(a.hi, a.lo)

\* Math.floor(a / 1000) and Math.floor(a / 1000000)
FloorDiv1000(a) == B(a.hi \div 1000, ((a.hi % 1000) * 10^6) + (a.lo \div 1000))

FloorDivMillion(a) == B(a.hi \div 10^6, ((a.hi % 10^6) * 1000) + (a.lo \div 10^6))

\* 10 * a + d for a decimal digit d
Times10Plus(a, d) == B((a.hi * 10) + (a.lo \div 10^8), ((a.lo % 10^8) * 10) + d)

\* days * 86400 + seconds for a day count and the seconds within the day
DaysToSeconds(days, seconds) ==
  LET x == days * 864
      l == ((x % 10^7) * 100) + seconds
  IN B((x \div 10^7) + (l \div 10^9), l % 10^9)

Undef == [type |-> "undefined", s |-> "", n |-> Zero]
Null == [type |-> "null", s |-> "", n |-> Zero]
Str(x) == [type |-> "string", s |-> x, n |-> Zero]
Num(k) == [type |-> "number", s |-> "", n |-> k]

\* The numbers that are not finite.
NaN == [type |-> "number", s |-> "NaN", n |-> Zero]
Infinity == [type |-> "number", s |-> "Infinity", n |-> Zero]

\* A nested object {date: x} and an array [x] that hold the string x.
Obj(x) == [type |-> "object", s |-> x, n |-> Zero]
Arr(x) == [type |-> "array", s |-> x, n |-> Zero]

\* String.prototype.trim over the strings of the model: the only strings
\* that carry white space are the all-blank ones.
Trim(x) ==
  IF x \in {"", " ", "  "} THEN ""
  ELSE IF x = " 1705276800 " THEN "1705276800"
  ELSE x

\* JavaScript truthiness of a value.
Truthy(v) ==
  CASE v.type = "string" -> v.s # ""
    [] v.type = "number" -> v.n # Zero \/ v.s = "Infinity"
    [] v.type \in {"object", "array"} -> TRUE
    [] OTHER -> FALSE

Item(id, title, slug, rt, ext, pd) ==
  [objectID |-> id, title |-> title, slug |-> slug, resourceType |-> rt,
   extUrl |-> ext, publishedDate |-> pd]

(***************************************************************************)
(* uuidUtils: a name-based (version 5) UUID under a fixed namespace.  The  *)
(* hash is modelled as an injective tagging of its input.                  *)
(***************************************************************************)
generateUid(x) == "uuid5(" \o x \o ")"

(***************************************************************************)
(* ValidationService.                                                      *)
(***************************************************************************)
validateBasicRecord(r) == r.objectID.type = "string"

validateRecordWithTitle(r) ==
  /\ validateBasicRecord(r)
  /\ r.title.type = "string"
  /\ Trim(r.title.s) # ""

\* A check that asks for no resource type.
WithAnyResourceType(r) == validateBasicRecord(r)

validateRecordWithResourceType(r) ==
  /\ validateBasicRecord(r)
  /\ r.resourceType.type = "string"
  /\ Trim(r.resourceType.s) # ""

validateRecordWithSlug(r) ==
  /\ validateBasicRecord(r)
  /\ r.slug.type = "string"
  /\ Trim(r.slug.s) # ""

validateObjectIdMatchesTitle(r) == r.objectID.s = generateUid(r.title.s)

validateObjectIdMatchesSlug(r) == r.objectID.s = generateUid(r.slug.s)

(***************************************************************************)
(* Sequence helpers.                                                       *)
(***************************************************************************)
Range(q) == {q[i] : i \in 1..Len(q)}

Min(a, b) == IF a < b THEN a ELSE b

(***************************************************************************)
(* dateUtils.  The local time zone of the process is UTC.                  *)
(***************************************************************************)
\* The result of a conversion: a number, or null.
Some(v) == [ok |-> TRUE, v |-> v]

None == [ok |-> FALSE, v |-> Zero]

MaxTimestamp == B(2, 147483647)

convertMsToSeconds(t) == FloorDiv1000(t)

convertMicrosecondsToSeconds(t) == FloorDivMillion(t)

\* A normalization that takes every number for seconds.
KeepTimestamp(input) == input

normalizeTimestamp(input) ==
  IF Less(B(999999, 999999999), input) THEN convertMicrosecondsToSeconds(input)
  ELSE IF Less(B(9, 999999999), input) THEN convertMsToSeconds(input)
  ELSE input

\* The characters of the date-like strings of the model.  Every other string
\* of the model is a word without digits; four letters stand for it.
Chars(x) ==
  CASE x = "2024-01-15" -> <<"2", "0", "2", "4", "-", "0", "1", "-", "1", "5">>
    [] x = "2040-01-01" -> <<"2", "0", "4", "0", "-", "0", "1", "-", "0", "1">>
    [] x = "01/15/2024" -> <<"0", "1", "/", "1", "5", "/", "2", "0", "2", "4">>
    [] x = "1705276800" -> <<"1", "7", "0", "5", "2", "7", "6", "8", "0", "0">>
    [] x = " 1705276800 " ->
         <<" ", "1", "7", "0", "5", "2", "7", "6", "8", "0", "0", " ">>
    [] x = "1705276800abc" ->
         <<"1", "7", "0", "5", "2", "7", "6", "8", "0", "0", "a", "b", "c">>
    [] x = "1705276800.5" ->
         <<"1", "7", "0", "5", "2", "7", "6", "8", "0", "0", ".", "5">>
    [] x = "1705276800000" ->
         <<"1", "7", "0", "5", "2", "7", "6", "8", "0", "0", "0", "0", "0">>
    [] x = "1705276800000000" ->
         <<"1", "7", "0", "5", "2", "7", "6", "8", "0", "0", "0", "0", "0", "0", "0", "0">>
    [] x = "946684799" -> <<"9", "4", "6", "6", "8", "4", "7", "9", "9">>
    [] x = "946684800" -> <<"9", "4", "6", "6", "8", "4", "8", "0", "0">>
    [] x = "2147483647" -> <<"2", "1", "4", "7", "4", "8", "3", "6", "4", "7">>
    [] x = "2147483648" -> <<"2", "1", "4", "7", "4", "8", "3", "6", "4", "8">>
    [] x = "2147483647000" ->
         <<"2", "1", "4", "7", "4", "8", "3", "6", "4", "7", "0", "0", "0">>
    [] x = "2147483647999" ->
         <<"2", "1", "4", "7", "4", "8", "3", "6", "4", "7", "9", "9", "9">>
    [] x = "" -> <<>>
    [] x = " " -> <<" ">>
    [] x = "a" -> <<"a">>
    [] OTHER -> <<"w", "o", "r", "d">>

Digits == <<"0", "1", "2", "3", "4", "5", "6", "7", "8", "9">>

IsDigit(c) == c \in Range(Digits)

DigitValue(c) == (CHOOSE d \in 1..10 : Digits[d] = c) - 1

\* The number written by a sequence of digits.
RECURSIVE DigitsToNumber(_)
DigitsToNumber(cs) ==
  IF cs = <<>> THEN Zero
  ELSE Times10Plus(DigitsToNumber(SubSeq(cs, 1, Len(cs) - 1)), DigitValue(cs[Len(cs)]))

\* The value of at most four digits.
Small(cs) == DigitsToNumber(cs).lo

\* parseFloat over unsigned literals: the longest prefix of digits and the
\* fraction .5 when it follows, whatever comes after; NaN (null here) when
\* the string does not start with a digit.
parseFloat(cs) ==
  LET k == CHOOSE n \in 0..Len(cs) :
             /\ \A i \in 1..n : IsDigit(cs[i])
             /\ n < Len(cs) => ~IsDigit(cs[n + 1])
      whole == DigitsToNumber(SubSeq(cs, 1, k))
  IN IF k = 0 THEN None
     ELSE IF k + 2 <= Len(cs) /\ cs[k + 1] = "." /\ cs[k + 2] = "5"
       THEN Some(Half(whole.hi, whole.lo))
     ELSE Some(whole)

\* The days from 1970-01-01 to the civil date y-m-d.
DaysFromCivil(y, m, d) ==
  LET yy == IF m <= 2 THEN y - 1 ELSE y
      era == yy \div 400
      yoe == yy - era * 400
      mp == (m + 9) % 12
      doy == ((153 * mp + 2) \div 5) + d - 1
      doe == (yoe * 365) + (yoe \div 4) - (yoe \div 100) + doy
  IN era * 146097 + doe - 719468

IsLeap(y) == (y % 4 = 0 /\ y % 100 # 0) \/ y % 400 = 0

DaysInMonth(y, m) ==
  IF m = 2 THEN (IF IsLeap(y) THEN 29 ELSE 28)
  ELSE IF m \in {4, 6, 9, 11} THEN 30 ELSE 31

\* new Date(year, monthIndex, day).getTime() / 1000: months and days that
\* overflow roll over, a year below 100 counts from 1900.
LocalDate(year, monthIndex, day) ==
  LET y == (IF year <= 99 THEN 1900 + year ELSE year) + (monthIndex \div 12)
  IN DaysToSeconds(DaysFromCivil(y, (monthIndex % 12) + 1, 1) + day - 1, 0)

\* The tokens of the dayjs formats the actions try.
Tokens(format) ==
  CASE format = "YYYY-MM-DD" -> <<"YYYY", "-", "MM", "-", "DD">>
    [] format = "YYYY-MM-DD HH:mm:ss" ->
         <<"YYYY", "-", "MM", "-", "DD", " ", "HH", ":", "mm", ":", "ss">>
    [] format = "YYYY-MM-DD HH:mm" -> <<"YYYY", "-", "MM", "-", "DD", " ", "HH", ":", "mm">>
    [] format = "MM/DD/YYYY" -> <<"MM", "/", "DD", "/", "YYYY">>
    [] format = "DD/MM/YYYY" -> <<"DD", "/", "MM", "/", "YYYY">>
    [] format = "YYYY/MM/DD" -> <<"YYYY", "/", "MM", "/", "DD">>
    [] format = "MM-DD-YYYY" -> <<"MM", "-", "DD", "-", "YYYY">>
    [] format = "DD-MM-YYYY" -> <<"DD", "-", "MM", "-", "YYYY">>

Fields == {"YYYY", "MM", "DD", "HH", "mm", "ss"}

Width(token) == IF token = "YYYY" THEN 4 ELSE IF token \in Fields THEN 2 ELSE 1

\* The position in the string before the k-th token of a format.
Offset(tokens, k) ==
  LET F[i \in 1..k] == IF i = 1 THEN 0 ELSE F[i - 1] + Width(tokens[i - 1])
  IN F[k]

\* The part of the string that the k-th token of a format covers.
Piece(cs, tokens, k) ==
  [i \in 1..Width(tokens[k]) |-> cs[Offset(tokens, k) + i]]

\* Whether a part of the string is what its token asks for.
Fits(piece, token) ==
  IF token \in Fields THEN \A i \in 1..Len(piece) : IsDigit(piece[i])
  ELSE piece = <<token>>

\* Whether the string is, token by token, of the shape of the format.
Shaped(cs, tokens) ==
  /\ Len(cs) = Offset(tokens, Len(tokens) + 1)
  /\ \A k \in 1..Len(tokens) : Fits(Piece(cs, tokens, k), tokens[k])

\* The number a field of the format holds, a default when the format lacks it.
Field(cs, tokens, token, default) ==
  IF \E k \in 1..Len(tokens) : tokens[k] = token
  THEN Small(Piece(cs, tokens, CHOOSE k \in 1..Len(tokens) : tokens[k] = token))
  ELSE default

\* The seconds from the epoch to a calendar date and time, null when a
\* field is out of its range.
CivilToUnix(y, m, d, hh, mi, ss) ==
  IF m \in 1..12 /\ d >= 1 /\ d <= DaysInMonth(y, m) /\ hh <= 23 /\ mi <= 59 /\ ss <= 59
  THEN Some(DaysToSeconds(DaysFromCivil(y, m, d), hh * 3600 + mi * 60 + ss))
  ELSE None

\* The fields of the string under the tokens of a format.
ParseTokens(cs, tokens) ==
  IF ~Shaped(cs, tokens) THEN None
  ELSE CivilToUnix(Field(cs, tokens, "YYYY", 1970), Field(cs, tokens, "MM", 1),
                   Field(cs, tokens, "DD", 1), Field(cs, tokens, "HH", 0),
                   Field(cs, tokens, "mm", 0), Field(cs, tokens, "ss", 0))

\* dayjs(dateString, format, true).unix(), null when the date is not valid:
\* in strict mode the string has to be the date written in the format.
dateStringToUnixTimestamp(cs, format) == ParseTokens(cs, Tokens(format))


\* /^(\d{4})-(\d{2})-(\d{2})$/
IsoDateMatch(cs) ==
  /\ Len(cs) = 10
  /\ \A i \in {1, 2, 3, 4, 6, 7, 9, 10} : IsDigit(cs[i])
  /\ cs[5] = "-" /\ cs[8] = "-"

\* Math.floor(new Date(string).getTime() / 1000) for the strings of the
\* model: a date-only ISO string is UTC midnight of a valid calendar date,
\* a word without digits is an invalid date.
DateParse(cs) ==
  IF ~(IsoDateMatch(cs) \/ (Len(cs) = 10 /\ cs[3] = "/")) THEN None
  ELSE dateStringToUnixTimestamp(cs, IF IsoDateMatch(cs) THEN "YYYY-MM-DD" ELSE "MM/DD/YYYY")


\* The records of q at the positions in S, in the order of q.
Pick(q, S) ==
  LET F[i \in 0..Len(q)] ==
        IF i = 0 THEN <<>>
        ELSE IF i \in S THEN Append(F[i - 1], q[i]) ELSE F[i - 1]
  IN F[Len(q)]

(***************************************************************************)
(* The store (the hosted index), seen through the three operations the     *)
(* actions call.  A traversal reads the list of items fixed by its first   *)
(* request; the cursor is an opaque token, 0 standing for "no cursor".     *)
(***************************************************************************)
\* browseParams.filters: the resource types asked for ({} when no filter).
StoreMatches(filters, r) ==
  \/ filters = {}
  \/ r.resourceType.type = "string" /\ r.resourceType.s \in filters

StoreBrowse(snap, hitsPerPage, cur) ==
  LET last == Min(cur + hitsPerPage, Len(snap))
  IN [hits |-> SubSeq(snap, cur + 1, last),
      cursor |-> IF last < Len(snap) THEN last ELSE 0]

RECURSIVE StoreSaveObjects(_, _)
StoreSaveObjects(idx, recs) ==
  IF recs = <<>> THEN idx
  ELSE LET r == Head(recs)
           pos == {i \in 1..Len(idx) : idx[i].objectID = r.objectID}
           idx2 == IF pos = {} THEN Append(idx, r)
                   ELSE [i \in 1..Len(idx) |-> IF i \in pos THEN r ELSE idx[i]]
       IN StoreSaveObjects(idx2, Tail(recs))

StoreDeleteObjects(idx, ids) ==
  SelectSeq(idx, LAMBDA r : ~(r.objectID.type = "string" /\ r.objectID.s \in Range(ids)))

(***************************************************************************)
(* The policies (one action class each).                                   *)
(***************************************************************************)
SlugPolicy == "replace-objectid-with-slug"
ResourcePolicy == "replace-resource-objectid"

DuplicatePolicy == "find-duplicate-slug"
PatternPolicy == "delete-records-by-pattern"
InvalidPolicy == "find-invalid-records"

RewritePolicies == {SlugPolicy, ResourcePolicy}

\* The actions that scan the whole index first and write afterwards.
CollectPolicies == {DuplicatePolicy, PatternPolicy, InvalidPolicy}


\* RESOURCE_TYPE_SCHEMA_PATH_MAPPING as parsed by validateConfiguration.
resourceConfigs ==
  <<[resourceType |-> "event", schemaPath |-> "/events.json"]>>

\* buildResourceTypeFilters: the resource types the browse is filtered on.
buildResourceTypeFilters == {resourceConfigs[i].resourceType : i \in 1..Len(resourceConfigs)}

Filters(pol) == IF pol = ResourcePolicy THEN buildResourceTypeFilters ELSE {}

\* The validateRecord each action class runs inside browseRecords.
validateRecord(pol, r) ==
  IF pol \in RewritePolicies
  THEN validateRecordWithTitle(r) /\ validateRecordWithResourceType(r)
  ELSE validateBasicRecord(r)

\* The outcome of a processRecord call: an update, or null.
NoUpdate(r, withoutTitle, err) ==
  [update |-> FALSE, newRecord |-> r, oldObjectId |-> "",
   withoutTitle |-> withoutTitle, error |-> err]

\* An update that keeps the objectID of the record.
UpdateKeepingId(r, newObjectId) ==
  [update |-> TRUE, newRecord |-> r,
   oldObjectId |-> r.objectID.s, withoutTitle |-> FALSE, error |-> FALSE]

Update(r, newObjectId) ==
  [update |-> TRUE, newRecord |-> [r EXCEPT !.objectID = Str(newObjectId)],
   oldObjectId |-> r.objectID.s, withoutTitle |-> FALSE, error |-> FALSE]

\* ReplaceObjectIdWithSlugAction.processRecord
SlugProcessRecord(r) ==
  IF ~validateRecordWithTitle(r) THEN NoUpdate(r, TRUE, FALSE)
  ELSE IF ~validateRecordWithSlug(r) THEN NoUpdate(r, FALSE, FALSE)
  ELSE IF ~validateObjectIdMatchesTitle(r) THEN NoUpdate(r, FALSE, FALSE)
  ELSE LET newObjectId == generateUid(r.slug.s)
       IN IF r.objectID.s = newObjectId THEN NoUpdate(r, FALSE, FALSE)
          ELSE Update(r, newObjectId)

\* ReplaceResourceObjectIdAction.processRecord
ResourceProcessRecord(r) ==
  IF ~validateRecordWithTitle(r) \/ ~validateRecordWithResourceType(r)
  THEN NoUpdate(r, TRUE, FALSE)
  ELSE LET found == {i \in 1..Len(resourceConfigs) :
                       resourceConfigs[i].resourceType = r.resourceType.s}
       IN IF found = {} THEN NoUpdate(r, FALSE, TRUE)
          ELSE LET config == resourceConfigs[CHOOSE i \in found : \A j \in found : i <= j]
                   extUrl == IF Truthy(r.extUrl) THEN r.extUrl.s ELSE ""
                   uuidString == config.schemaPath \o ";" \o config.resourceType
                                   \o ";" \o r.title.s \o ";" \o extUrl
                   newObjectId == generateUid(uuidString)
               IN IF r.objectID.s = newObjectId THEN NoUpdate(r, FALSE, FALSE)
                  ELSE Update(r, newObjectId)

(***************************************************************************)
(* find-duplicate-slug.                                                    *)
(***************************************************************************)
hasValidSlug(r) ==
  validateRecordWithSlug(r) \/ (r.slug.type = "string" /\ Trim(r.slug.s) # "")

\* The keys of slugGroups, in insertion order.
SlugKeys(recs) ==
  LET F[i \in 0..Len(recs)] ==
        IF i = 0 THEN <<>>
        ELSE IF recs[i].slug.s \in Range(F[i - 1]) THEN F[i - 1]
        ELSE Append(F[i - 1], recs[i].slug.s)
  IN F[Len(recs)]

\* The last record of q that satisfies the flag sequence, as a one-element
\* or empty sequence (a later assignment overwrites an earlier one).
LastWhere(q, flags) ==
  LET S == {i \in 1..Len(q) : flags[i]}
  IN IF S = {} THEN <<>> ELSE <<q[CHOOSE i \in S : \A j \in S : j <= i]>>

\* identifyDuplicates: one group per slug held by more than one record.
identifyDuplicates(recs) ==
  LET keys == SlugKeys(recs)
      Group(slug) == SelectSeq(recs, LAMBDA r : r.slug.s = slug)
      dup == SelectSeq(keys, LAMBDA slug : Len(Group(slug)) > 1)
  IN [g \in 1..Len(dup) |->
        LET records == Group(dup[g])
            byTitle == [i \in 1..Len(records) |->
                          /\ Truthy(records[i].title)
                          /\ records[i].objectID.s = generateUid(records[i].title.s)]
            bySlug == [i \in 1..Len(records) |->
                         /\ Truthy(records[i].title)
                         /\ ~byTitle[i]
                         /\ records[i].objectID.s = generateUid(dup[g])]
        IN [slug |-> dup[g], records |-> records,
            titleGeneratedRecord |-> LastWhere(records, byTitle),
            slugGeneratedRecord |-> LastWhere(records, bySlug)]]

\* processDuplicateReplacements: the groups that hold both kinds of record.
Replaceable(groups) ==
  SelectSeq(groups, LAMBDA g : g.titleGeneratedRecord # <<>> /\ g.slugGeneratedRecord # <<>>)

recordsToSave(groups) ==
  [i \in 1..Len(Replaceable(groups)) |->
     [Replaceable(groups)[i].titleGeneratedRecord[1] EXCEPT
        !.objectID = Replaceable(groups)[i].slugGeneratedRecord[1].objectID]]

recordsToDelete(groups) ==
  [i \in 1..Len(Replaceable(groups)) |->
     Replaceable(groups)[i].titleGeneratedRecord[1].objectID.s]

(***************************************************************************)
(* delete-records-by-pattern, run with --key slug --pattern ^draft$.       *)
(***************************************************************************)
PatternKey == "slug"

\* this.regex.test(fieldValue) for the pattern ^draft$.
RegexTest(x) == x = "draft"

\* A match that accepts every string.
MatchesAnyString(r) == r[PatternKey].type = "string"

recordMatchesPattern(r) ==
  IF r[PatternKey].type # "string" THEN FALSE ELSE RegexTest(r[PatternKey].s)

(***************************************************************************)
(* find-invalid-records, run with --keys title,slug.                       *)
(***************************************************************************)
VARIABLE keys    \* options.keys, the --keys value of find-invalid-records

\* keysString.split(","), for the --keys values of the model.
SplitKeys(keysString) ==
  CASE keysString = "title,slug" -> <<"title", "slug">>
    [] keysString = " , " -> <<" ", " ">>
    [] OTHER -> <<keysString>>

\* A key list that keeps the blank segments.
KeepBlankKeys(keysString) == SplitKeys(keysString)

\* parseKeys: the segments, trimmed, without the empty ones.
parseKeys(keysString) ==
  SelectSeq([k \in 1..Len(SplitKeys(keysString)) |-> Trim(SplitKeys(keysString)[k])],
            LAMBDA key : key # "")

\* The --keys values that pass validateOptions.
KeysOptions == {"title,slug", " , "}

\* this.checkedKeys = this.parseKeys(options.keys)
checkedKeys == parseKeys(keys)

isValueInvalid(v) ==
  \/ v.type = "null"
  \/ v.type = "undefined"
  \/ v.type = "string" /\ Trim(v.s) = ""

recordHasInvalidKeys(r) ==
  \A k \in 1..Len(checkedKeys) : isValueInvalid(r[checkedKeys[k]])

\* A selection that does not look at the objectID.
InvalidWhateverId(r) == recordHasInvalidKeys(r)

\* recordHasInvalidKeys(record) && generateUid(record.title || "") === record.objectID
InvalidSelected(r) ==
  /\ recordHasInvalidKeys(r)
  /\ generateUid(IF Truthy(r.title) THEN r.title.s ELSE "") = r.objectID.s

(***************************************************************************)
(* normalize-date-field (run with --field publishedDate) and               *)
(* sanitize-date-values.                                                   *)
(***************************************************************************)
NormalizePolicy == "normalize-date-field"
SanitizePolicy == "sanitize-date-values"

DatePolicies == {NormalizePolicy, SanitizePolicy}

fieldName == "publishedDate"

\* Object.entries(record) without objectID, in the order of the item.
FieldOrder == <<"title", "slug", "resourceType", "extUrl", "publishedDate">>

\* A check that lets null and the empty string through.
OnlyUndefined(v) == v.type = "undefined"

isNullOrEmpty(v) == v.type \in {"null", "undefined"} \/ (v.type = "string" /\ v.s = "")

isAlreadyNormalizedTimestamp(originalValue, convertedValue) ==
  /\ originalValue.type = "number"
  /\ Less(Zero, originalValue.n)
  /\ LessEq(originalValue.n, MaxTimestamp)
  /\ originalValue.n = convertedValue

InRange(t) == t.ok /\ Less(Zero, t.v) /\ LessEq(t.v, MaxTimestamp)

Between(lo, x, hi) == LessEq(lo, x) /\ LessEq(x, hi)

\* a, or b when a is null.
OrElse(a, b) == IF a.ok THEN a ELSE b

\* t when it lies in (0, 2147483647], null otherwise.
InRangeOrNone(t) == IF InRange(t) THEN t ELSE None

\* The first of the results that lies in (0, 2147483647].
FirstInRange(results) ==
  LET S == {i \in 1..Len(results) : InRange(results[i])}
  IN IF S = {} THEN None ELSE results[CHOOSE i \in S : \A j \in S : i <= j]

\* The result of the first format that parses into (0, 2147483647].
FirstFormat(cs, formats) ==
  FirstInRange([i \in 1..Len(formats) |-> dateStringToUnixTimestamp(cs, formats[i])])

\* The numeric windows of NormalizeDateFieldAction.parseStringDate.
NormalizeNumeric(numericValue) ==
  IF ~(numericValue.ok /\ Less(Zero, numericValue.v)) THEN None
  ELSE IF Between(B(0, 946684800), numericValue.v, MaxTimestamp)
    THEN Some(Floor(numericValue.v))
  ELSE IF Between(B(946, 684800000), numericValue.v, B(2147, 483647000))
    THEN Some(FloorDiv1000(numericValue.v))
  ELSE None

\* NormalizeDateFieldAction.parseStringDate
NormalizeParseStringDate(value) ==
  OrElse(NormalizeNumeric(parseFloat(Chars(Trim(value)))),
         OrElse(FirstFormat(Chars(value),
                  <<"YYYY-MM-DD", "YYYY-MM-DD HH:mm:ss", "MM/DD/YYYY", "DD/MM/YYYY", "YYYY/MM/DD">>),
                DateParse(Chars(value))))


\* A regular expression anchored at the start: "d" is a digit, "d?" an
\* optional digit, any other element stands for itself.
RECURSIVE MatchPrefix(_, _)
MatchPrefix(cs, pat) ==
  IF pat = <<>> THEN TRUE
  ELSE IF Head(pat) = "d?"
    THEN \/ cs # <<>> /\ IsDigit(Head(cs)) /\ MatchPrefix(Tail(cs), Tail(pat))
         \/ MatchPrefix(cs, Tail(pat))
  ELSE IF cs = <<>> THEN FALSE
  ELSE IF Head(pat) = "d" THEN IsDigit(Head(cs)) /\ MatchPrefix(Tail(cs), Tail(pat))
  ELSE Head(cs) = Head(pat) /\ MatchPrefix(Tail(cs), Tail(pat))

datePatterns ==
  << <<"d", "d", "d", "d", "-", "d", "d", "-", "d", "d", "T", "d", "d", ":", "d", "d", ":", "d", "d">>,
     <<"d", "d", "d", "d", "-", "d", "d", "-", "d", "d", " ", "d", "d", ":", "d", "d", ":", "d", "d">>,
     <<"d", "d?", "/", "d", "d?", "/", "d", "d", "d", "d">>,
     <<"d", "d", "d", "d", "/", "d", "d?", "/", "d", "d?">>,
     <<"d", "d?", "-", "d", "d?", "-", "d", "d", "d", "d">> >>

\* The numeric windows of SanitizeDateValuesAction.parseStringDate.
SanitizeNumeric(numericValue) ==
  IF ~(numericValue.ok /\ Less(Zero, numericValue.v)) THEN None
  ELSE IF Between(B(946684, 800000000), numericValue.v, B(2147483, 647000000))
    THEN Some(FloorDivMillion(numericValue.v))
  ELSE IF Between(B(946, 684800000), numericValue.v, B(2147, 483647000))
    THEN Some(FloorDiv1000(numericValue.v))
  ELSE IF Between(B(0, 946684800), numericValue.v, MaxTimestamp)
    THEN Some(Floor(numericValue.v))
  ELSE None

\* new Date(parseInt(year), parseInt(month) - 1, parseInt(day)) of a match.
IsoShortcut(cs) ==
  LocalDate(Small(SubSeq(cs, 1, 4)), Small(SubSeq(cs, 6, 7)) - 1, Small(SubSeq(cs, 9, 10)))

\* t when it is a number above zero, null otherwise.
PositiveOrNone(t) == IF t.ok /\ Less(Zero, t.v) THEN t ELSE None

\* SanitizeDateValuesAction.parseStringDate on the trimmed string.
SanitizeParseTrimmed(cs) ==
  IF Len(cs) < 4 THEN None
  ELSE OrElse(SanitizeNumeric(parseFloat(cs)),
         IF IsoDateMatch(cs) THEN Some(IsoShortcut(cs))
         ELSE IF ~\E k \in 1..Len(datePatterns) : MatchPrefix(cs, datePatterns[k]) THEN None
         ELSE OrElse(FirstFormat(cs,
                       <<"YYYY-MM-DD HH:mm:ss", "MM/DD/YYYY", "DD/MM/YYYY", "YYYY/MM/DD",
                         "YYYY-MM-DD HH:mm", "MM-DD-YYYY", "DD-MM-YYYY">>),
                     PositiveOrNone(DateParse(cs))))

\* SanitizeDateValuesAction.parseStringDate
SanitizeParseStringDate(value) == SanitizeParseTrimmed(Chars(Trim(value)))


\* attemptDateConversion of the two actions.
attemptDateConversion(pol, value) ==
  IF isNullOrEmpty(value) THEN None
  ELSE IF value.type = "number"
    THEN IF value.s = "NaN" THEN None
         \* Infinity is above zero, normalizes to Infinity and is out of range
         ELSE IF value.s = "Infinity" THEN None
         ELSE IF Less(Zero, value.n) THEN InRangeOrNone(Some(normalizeTimestamp(value.n)))
         ELSE None
  ELSE IF value.type = "string"
    THEN IF pol = NormalizePolicy THEN NormalizeParseStringDate(value.s)
         ELSE SanitizeParseStringDate(value.s)
  ELSE None

\* What the scan loop of a collecting action keeps of a page.
Collected(pol, recs) ==
  CASE pol = DuplicatePolicy -> SelectSeq(recs, hasValidSlug)
    [] pol = PatternPolicy -> SelectSeq(recs, recordMatchesPattern)
    [] pol = InvalidPolicy -> SelectSeq(recs, InvalidSelected)

Policies == RewritePolicies \cup CollectPolicies \cup DatePolicies

processRecord(pol, r) ==
  IF pol = SlugPolicy THEN SlugProcessRecord(r) ELSE ResourceProcessRecord(r)

\* The processRecord outcome of every record of a page, in page order.
PageResults(pol, recs) == [i \in 1..Len(recs) |-> processRecord(pol, recs[i])]

\* A page loop that pushes to oldObjectIds for every record, updated or not.
OldObjectIdsOfAll(results) == [i \in 1..Len(results) |-> results[i].oldObjectId]

\* The two lists the page loop fills: one push to each per update.
UpdatedRecordsOf(results) ==
  LET ups == SelectSeq(results, LAMBDA u : u.update)
  IN [i \in 1..Len(ups) |-> ups[i].newRecord]

OldObjectIdsOf(results) ==
  LET ups == SelectSeq(results, LAMBDA u : u.update)
  IN [i \in 1..Len(ups) |-> ups[i].oldObjectId]

(***************************************************************************)
(* The indexes a run can start on.  D(x) abbreviates generateUid(x).       *)
(***************************************************************************)
D(x) == Str(generateUid(x))

ResourceUid(title, extUrl) ==
  Str(generateUid("/events.json;event;" \o title \o ";" \o extUrl))

SlugCorpus ==
  << Item(D("a"), Str("a"), Str("b"), Str("event"), Undef, Undef),
     Item(D("b"), Str("b"), Str("c"), Str("event"), Undef, Undef),
     Item(D("d"), Str("d"), Str("b"), Str("event"), Undef, Undef),
     Item(D("e"), Str("e"), Str("e"), Str("event"), Undef, Undef),
     Item(Str("x1"), Str(" "), Str("q"), Str("event"), Undef, Undef),
     Item(Undef, Str("g"), Str("h"), Str("event"), Undef, Undef),
     Item(Str("x2"), Str("f"), Undef, Str("event"), Undef, Undef),
     Item(D("m"), Str("m"), Str("n"), Undef, Undef, Undef) >>

ResourceCorpus ==
  << Item(Str("o1"), Str("t"), Str("s1"), Str("event"), Undef, Undef),
     Item(Str("o2"), Str("t"), Str("s2"), Str("event"), Undef, Undef),
     Item(ResourceUid("t", ""), Str("t"), Str("s3"), Str("event"), Undef, Undef),
     Item(Str("o4"), Str("u"), Str("s4"), Str("event"), Str("http://x"), Undef),
     Item(Str("o5"), Str("v"), Str("s5"), Str("article"), Undef, Undef),
     Item(Str("o6"), Str(" "), Str("s6"), Str("event"), Undef, Undef),
     Item(Undef, Str("w"), Str("s7"), Str("event"), Undef, Undef) >>

DuplicateCorpus ==
  << Item(D("t1"), Str("t1"), Str("s"), Str("event"), Undef, Undef),
     Item(D("s"), Str("t2"), Str("s"), Str("event"), Undef, Undef),
     Item(Str("z3"), Str("t3"), Str("s"), Str("event"), Undef, Undef),
     Item(D("t4"), Str("t4"), Str("s"), Str("event"), Undef, Undef),
     Item(D("t5"), Str("t5"), Str("v"), Str("event"), Undef, Undef),
     Item(D("v"), Str("t6"), Str("v"), Str("event"), Undef, Undef),
     Item(Undef, Str("t7"), Str("s"), Str("event"), Undef, Undef) >>

PatternCorpus ==
  << Item(Str("p1"), Str("a"), Str("draft"), Str("event"), Undef, Undef),
     Item(Str("p2"), Str("b"), Str("draft"), Str("event"), Undef, Undef),
     Item(Str("p3"), Str("c"), Str("live"), Str("event"), Undef, Undef),
     Item(Str("p4"), Str("draft"), Undef, Str("event"), Undef, Undef),
     Item(Str("p5"), Str("e"), Str("draft"), Undef, Undef, Undef),
     Item(Undef, Str("f"), Str("draft"), Str("event"), Undef, Undef) >>

InvalidCorpus ==
  << Item(D(""), Undef, Undef, Str("event"), Undef, Undef),
     Item(D(" "), Str(" "), Null, Str("event"), Undef, Undef),
     Item(D("a"), Str("a"), Undef, Str("event"), Undef, Undef),
     Item(Str("i4"), Undef, Str(""), Str("event"), Undef, Undef),
     Item(D("b"), Str("b"), Str("b"), Str("event"), Undef, Undef),
     Item(Undef, Undef, Undef, Str("event"), Undef, Undef) >>

NormalizeCorpus ==
  << Item(Str("n1"), Str("a"), Undef, Str("event"), Undef, Str("2024-01-15")),
     Item(Str("n2"), Str("a"), Undef, Str("event"), Undef, Num(B(1705, 276800000))),
     Item(Str("n3"), Str("a"), Undef, Str("event"), Undef, Num(B(1, 705276800))),
     Item(Str("n4"), Str("a"), Undef, Str("event"), Undef, Str("soon")),
     Item(Str("n5"), Str("a"), Undef, Str("event"), Undef, Undef),
     Item(Str("n6"), Str("a"), Undef, Str("event"), Undef, Str("2040-01-01")),
     Item(Str("n7"), Str("a"), Undef, Str("event"), Undef, Null),
     Item(Str("n8"), Str("a"), Undef, Str("event"), Undef, Str("")),
     Item(Undef, Str("a"), Undef, Str("event"), Undef, Str("2024-01-15")) >>

SanitizeCorpus ==
  << Item(Str("d1"), Str("a"), Undef, Str("event"), Undef, Str("2024-01-15")),
     Item(Str("d2"), Str("a"), Undef, Str("event"), Undef, Num(B(1705, 276800000))),
     Item(Str("d3"), Str("a"), Undef, Str("event"), Undef, Str("2040-01-01")),
     Item(Str("d4"), Str("a"), Undef, Str("event"), Undef, Num(B(1, 705276800))),
     Item(Str("d5"), Str("a"), Undef, Str("event"), Str("01/15/2024"), Str("1705276800")),
     Item(Str("d6"), Str("a"), Arr("2024-01-15"), Str("event"), Obj("2024-01-15"), Str("2024-01-15")),
     Item(Undef, Str("a"), Undef, Str("event"), Undef, Str("2024-01-15")) >>

Corpus(pol) ==
  CASE pol = SlugPolicy -> SlugCorpus
    [] pol = NormalizePolicy -> NormalizeCorpus
    [] pol = SanitizePolicy -> SanitizeCorpus
    [] pol = ResourcePolicy -> ResourceCorpus
    [] pol = DuplicatePolicy -> DuplicateCorpus
    [] pol = PatternPolicy -> PatternCorpus
    [] pol = InvalidPolicy -> InvalidCorpus

\* The indexes of at most MaxRecords items drawn from the corpus of a policy.
Indexes(pol) ==
  {Pick(Corpus(pol), S) : S \in {T \in SUBSET (1..Len(Corpus(pol))) : Cardinality(T) <= MaxRecords}}

(***************************************************************************)
(* The state of a run.                                                     *)
(***************************************************************************)
VARIABLES
  policy,         \* the action class that runs
  dryRun,         \* options.dryRun
  batchSize,      \* options.batchSize, 0 when the option is absent
  execute,        \* whether --execute was given on the command line
  skipConfirmation, \* options.skipConfirmation
  files,          \* the backup files of the input directory
  indexName,      \* options.indexName, "" when --index was not given
  exitCode,       \* the exit status of the process, -1 while it runs
  index,          \* the items of the hosted index
  snapshot,       \* the result set the current traversal reads
  pc,             \* where the run stands
  cursor,         \* browseRecords: let cursor
  page,           \* the page browseRecords yielded last
  metrics,        \* this.metrics
  updatedRecords, \* the pending upsert list
  oldObjectIds,   \* the pending delete list
  trace,          \* what happened so far: store calls, yields, classified pages
  result,         \* what execute() returned
  index0,         \* the index the first run started on
  runs,           \* the outcome of every earlier run on this index
  acc,            \* what the scan loop of a collecting action has kept
  analysis,       \* the metrics object of a date action
  batchIndex,     \* BatchProcessor.processItems: let i
  argument,       \* the value handed to the date conversion on its own
  outcomes,       \* what the conversion made of it, call after call
  rules,          \* the number of rules of the hosted index
  synonyms,       \* the number of synonyms of the hosted index
  backupData,     \* BackupIndexAction.processRecords: const backupData
  items,          \* BatchProcessor: the items handed over
  resultList,     \* BatchProcessor: const results
  inflight,       \* processInParallel: the invocations that have not completed
  settled,        \* processInParallel: the invocations in the order they completed
  batchNumber,    \* processItems: let batchNumber
  maxConcurrency  \* processInParallel: the parameter maxConcurrency

vars ==
  <<policy, dryRun, batchSize, execute, skipConfirmation, files, exitCode,
    index, snapshot, pc, cursor, page, metrics,
    updatedRecords, oldObjectIds, trace, result, index0, runs,
    acc, analysis, batchIndex, argument, outcomes, indexName, keys,
    rules, synonyms, backupData, items, resultList, inflight, settled,
    batchNumber, maxConcurrency>>

\* What the invocation was given: none of it changes while the command runs.
options == <<policy, dryRun, batchSize, execute, skipConfirmation, files, indexName, keys>>

history == <<index0, runs>>

collect == <<acc, analysis, batchIndex>>

\* The conversion called on its own: no command touches it.
conversion == <<argument, outcomes>>

\* What a backup reads and collects: no other command touches it.
archive == <<rules, synonyms, backupData>>

\* The batch processor called on its own.
batches == <<items, resultList, inflight, settled, batchNumber, maxConcurrency>>

initializeMetrics ==
  [totalRecords |-> 0, processedRecords |-> 0, recordsWithChanges |-> 0,
   recordsWithoutTitle |-> 0, batchesProcessed |-> 0, errors |-> <<>>]

\* initializeDateMetrics and initializeSanitizationMetrics, as one record.
initializeDateMetrics ==
  [totalRecords |-> 0, processedRecords |-> 0, batchesProcessed |-> 0,
   fieldFound |-> 0, fieldEmpty |-> 0, fieldValidTimestamps |-> 0,
   fieldConvertibleDates |-> 0, fieldInvalidDates |-> 0,
   recordsWithDates |-> 0, totalFieldsFound |-> 0, totalFieldsSanitized |-> 0,
   errors |-> <<>>]

NoResult == [returned |-> FALSE, success |-> FALSE, metrics |-> initializeMetrics]

\* An entry of the trace.
Event(op, status, cur, hpp, recs, ids) ==
  [op |-> op, status |-> status, cursor |-> cur, hitsPerPage |-> hpp,
   records |-> recs, ids |-> ids, next |-> 0]

Calls == {i \in 1..Len(trace) : trace[i].op \in {"browse", "save", "delete"}}

Pending == {i \in Calls : trace[i].status = "pending"}

LastCall == CHOOSE i \in Calls : \A j \in Calls : j <= i

\* The string object IDs of an index are pairwise distinct.
DistinctIds(idx) ==
  \A i, j \in 1..Len(idx) :
    (i # j /\ idx[i].objectID.type = "string") => idx[i].objectID # idx[j].objectID

\* const backupData = { records: [], settings: {}, rules: [], synonyms: [] },
\* rules and synonyms by their number.
NoBackupData == [records |-> <<>>, rules |-> 0, synonyms |-> 0]

\* A new action object.
FreshAction ==
  /\ snapshot = <<>>
  /\ cursor = 0
  /\ page = <<>>
  /\ metrics = initializeMetrics
  /\ updatedRecords = <<>>
  /\ oldObjectIds = <<>>
  /\ trace = <<>>
  /\ result = NoResult
  /\ exitCode = -1
  /\ acc = <<>>
  /\ analysis = initializeDateMetrics
  /\ batchIndex = 0
  /\ argument = Undef
  /\ outcomes = <<>>
  /\ backupData = NoBackupData
  /\ items = <<>>
  /\ resultList = <<>>
  /\ inflight = {}
  /\ settled = <<>>
  /\ batchNumber = 0
  /\ maxConcurrency = DefaultConcurrency

FreshRun ==
  /\ pc = "start"
  /\ rules = 0
  /\ synonyms = 0
  /\ FreshAction

\* A backup file of the input directory, or its absence.
File(content) == [found |-> TRUE, parses |-> TRUE, content |-> content]

\* A file that is there and is not JSON.
Corrupt == [found |-> TRUE, parses |-> FALSE, content |-> <<>>]

Absent == [found |-> FALSE, parses |-> FALSE, content |-> <<>>]

NoFiles == [records |-> Absent, settings |-> Absent, rules |-> Absent, synonyms |-> Absent]

\* A policy command: const dryRun = !options.execute, and the batch size is
\* the number --batch-size was given.
Init ==
  /\ policy \in Policies
  /\ execute \in BOOLEAN
  /\ dryRun = ~execute
  /\ batchSize \in (0..MaxBatchSize) \cup {BatchSizeCap + 1}
  /\ skipConfirmation = FALSE
  /\ files = NoFiles
  /\ indexName = "products"
  /\ keys \in IF policy = InvalidPolicy THEN KeysOptions ELSE {""}
  /\ index \in {idx \in Indexes(policy) : DistinctIds(idx)}
  /\ index0 = index
  /\ runs = <<>>
  /\ FreshRun

(***************************************************************************)
(* confirmDestructiveAction.                                               *)
(***************************************************************************)
\* A confirmation that is asked for in a dry run too.
PromptsAlways(dry) == TRUE

\* Whether processRecords reaches the prompt: it is skipped in a dry run.
Prompts(dry) == ~dry

Start ==
  /\ pc = "start"
  /\ pc' = IF Prompts(dryRun) THEN "prompt" ELSE "browse"
  /\ UNCHANGED <<archive, batches, conversion, options, exitCode, index, snapshot, cursor, page,
                 metrics, updatedRecords, oldObjectIds, trace, result, history, collect>>

\* String.prototype.toLowerCase over the answers of the model.
toLowerCase(x) == IF x = "YES" THEN "yes" ELSE x

\* The answer is compared in lower case with "yes"; anything else exits.
Confirm ==
  /\ pc = "prompt"
  /\ \E confirmation \in {"yes", "YES", "no"} :
       /\ trace' = Append(trace, Event("prompt", "ok", 0, 0, <<>>, <<confirmation>>))
       /\ pc' = IF toLowerCase(confirmation) = "yes" THEN "browse" ELSE "cancelled"
       /\ exitCode' = IF toLowerCase(confirmation) = "yes" THEN exitCode ELSE 0
  /\ UNCHANGED <<archive, batches, conversion, options, index, snapshot, cursor, page,
                 metrics, updatedRecords, oldObjectIds, result, history, collect>>

(***************************************************************************)
(* browseRecords.                                                          *)
(***************************************************************************)
HitsPerPage(bs) == IF bs # 0 THEN bs ELSE DefaultBatchSize

\* ConfigurationManager.getBatchSize.  override is the option, 0 when it is
\* absent; parsed is parseInt(process.env.ALGOLIA_BATCH_SIZE, 10), 0 when
\* the variable is unset or is not a number.  No action calls it.
getBatchSize(override, parsed) ==
  IF override # 0 /\ override > 0 THEN Min(override, BatchSizeCap)
  ELSE IF parsed # 0 /\ parsed > 0 THEN Min(parsed, BatchSizeCap)
  ELSE DefaultBatchSize

\* A loop that breaks after its first page whatever the response carried.
LoopBreaksAlways(cur) == FALSE

\* if (!cursor) break: the loop goes on while the response carried a cursor.
LoopContinues(cur) == cur # 0

\* Where the run goes once the consumer is done with a page: to the next
\* request, or to what follows the for-await loop.
NextAfterPage(pol, cur) ==
  IF LoopContinues(cur) THEN "browse"
  ELSE IF pol \in RewritePolicies THEN "finish" ELSE "post"

\* await this.client.browse({hitsPerPage, cursor, filters}): the request.
BrowseRequest ==
  /\ pc = "browse"
  /\ trace' = Append(trace, Event("browse", "pending", cursor, HitsPerPage(batchSize), <<>>, <<>>))
  /\ snapshot' = IF cursor = 0
                 THEN SelectSeq(index, LAMBDA r : StoreMatches(Filters(policy), r))
                 ELSE snapshot
  /\ pc' = "await_browse"
  /\ UNCHANGED <<archive, batches, conversion, options, exitCode, index, cursor, page, metrics,
                 updatedRecords, oldObjectIds, result, history, collect>>

\* A validation loop that keeps every hit.
KeepAllRecords(pol, hits) == hits

\* The validation loop over response.hits.
ValidRecords(pol, hits) == SelectSeq(hits, LAMBDA r : validateRecord(pol, r))

InvalidRecords(pol, hits) == SelectSeq(hits, LAMBDA r : ~validateRecord(pol, r))

StructureErrors(pol, hits) ==
  [i \in 1..Len(InvalidRecords(pol, hits)) |->
     [msg |-> "Invalid record structure", record |-> InvalidRecords(pol, hits)[i]]]

\* The response arrives: validate the hits, count, keep the cursor, yield.
BrowseResponse ==
  /\ pc = "await_browse"
  /\ LET call == trace[LastCall]
         response == StoreBrowse(snapshot, call.hitsPerPage, call.cursor)
         validRecords == ValidRecords(policy, response.hits)
     IN /\ metrics' = [metrics EXCEPT
                         !.totalRecords = @ + Len(validRecords),
                         !.errors = @ \o StructureErrors(policy, response.hits),
                         !.batchesProcessed = @ + 1]
        /\ cursor' = response.cursor
        /\ page' = validRecords
        /\ trace' = Append([trace EXCEPT ![LastCall].status = "ok",
                                         ![LastCall].records = response.hits,
                                         ![LastCall].next = response.cursor],
                           Event("yield", "ok", 0, 0, validRecords, <<>>))
  /\ pc' = "consume"
  /\ UNCHANGED <<archive, batches, conversion, options, exitCode, index, snapshot, updatedRecords,
                 oldObjectIds, result, history, collect>>

(***************************************************************************)
(* The body of the for-await loop of the identifier-rewrite actions.       *)
(***************************************************************************)
\* A flush condition that leaves options.dryRun out.
FlushIgnoringDryRun(dry, updated) == Len(updated) > 0

\* A page loop that never flushes.
FlushNever(dry, updated) == FALSE

\* if (!this.options.dryRun && updatedRecords.length > 0)
FlushNeeded(dry, updated) == ~dry /\ Len(updated) > 0

\* A flush that deletes the old identifiers first.
FlushStepsDeleteFirst(pol) == <<"delete", "save">>

\* await this.saveRecords(updatedRecords); await this.deleteRecords(oldObjectIds);
\* The write calls of a flush, in order: an upsert and a delete for the
\* identifier rewrites and the duplicate replacement, a delete alone for the
\* two deleting actions.
FlushSteps(pol) ==
  IF pol \in {PatternPolicy, InvalidPolicy} THEN <<"delete">>
  ELSE IF pol \in DatePolicies THEN <<"save">>
  ELSE <<"save", "delete">>

\* Where the run goes once the write call `op` of a flush has completed.
AfterWrite(pol, op, cur) ==
  LET steps == FlushSteps(pol)
      k == CHOOSE i \in 1..Len(steps) : steps[i] = op
  IN IF k < Len(steps) THEN steps[k + 1]
     ELSE IF pol \in RewritePolicies THEN NextAfterPage(pol, cur)
     ELSE IF pol \in DatePolicies THEN "batch"
     ELSE "finish"

ProcessPage ==
  /\ pc = "consume"
  /\ policy \in RewritePolicies
  /\ LET results == PageResults(policy, page)
         updated == UpdatedRecordsOf(results)
         old == OldObjectIdsOf(results)
     IN /\ updatedRecords' = updated
        /\ oldObjectIds' = old
        /\ metrics' = [metrics EXCEPT
                         !.processedRecords = @ + Len(page),
                         !.recordsWithChanges = @ + Len(updated),
                         !.recordsWithoutTitle =
                            @ + Len(SelectSeq(results, LAMBDA u : u.withoutTitle)),
                         !.errors = @ \o
                            [i \in 1..Len(SelectSeq(results, LAMBDA u : u.error)) |->
                               [msg |-> "No configuration found for resourceType",
                                record |-> SelectSeq(results, LAMBDA u : u.error)[i].newRecord]]]
        /\ trace' = Append(trace, Event("processed", "ok", 0, 0, updated, old))
        /\ pc' = IF FlushNeeded(dryRun, updated) THEN FlushSteps(policy)[1]
                 ELSE NextAfterPage(policy, cursor)
  /\ UNCHANGED <<archive, batches, conversion, options, exitCode, index, snapshot, cursor, page,
                 result, history, collect>>

(***************************************************************************)
(* The scan loop of the collecting actions, and what follows it.           *)
(***************************************************************************)
CollectPage ==
  /\ pc = "consume"
  /\ policy \in CollectPolicies
  /\ LET kept == Collected(policy, page)
     IN /\ acc' = acc \o kept
        /\ metrics' = [metrics EXCEPT
                         !.processedRecords = @ + Len(page),
                         !.recordsWithChanges =
                            IF policy = DuplicatePolicy THEN @ ELSE @ + Len(kept)]
  /\ pc' = NextAfterPage(policy, cursor)
  /\ UNCHANGED <<archive, batches, conversion, options, exitCode, index, snapshot, cursor, page, updatedRecords,
                 oldObjectIds, trace, result, history, analysis, batchIndex>>

\* if (!this.options.dryRun && <what was found>.length > 0)
WritesNeeded(dry, n) == ~dry /\ n > 0

\* The lists the write phase of a collecting action hands to the store.
ToSave(pol, kept) ==
  IF pol = DuplicatePolicy THEN recordsToSave(identifyDuplicates(kept)) ELSE <<>>

ToDelete(pol, kept) ==
  IF pol = DuplicatePolicy THEN recordsToDelete(identifyDuplicates(kept))
  ELSE [i \in 1..Len(kept) |-> kept[i].objectID.s]

\* What was found, whose number decides whether the write phase runs:
\* the duplicate groups, or the records selected for deletion.
Found(pol, kept) ==
  IF pol = DuplicatePolicy THEN Len(identifyDuplicates(kept)) ELSE Len(kept)

PostScan ==
  /\ pc = "post"
  /\ policy \in CollectPolicies
  /\ IF WritesNeeded(dryRun, Found(policy, acc))
     THEN /\ updatedRecords' = ToSave(policy, acc)
          /\ oldObjectIds' = ToDelete(policy, acc)
          /\ metrics' = [metrics EXCEPT !.recordsWithChanges =
                           IF policy = DuplicatePolicy
                           THEN @ + Len(ToSave(policy, acc)) ELSE @]
          /\ pc' = FlushSteps(policy)[1]
     ELSE /\ UNCHANGED <<updatedRecords, oldObjectIds, metrics>>
          /\ pc' = "finish"
  /\ UNCHANGED <<archive, batches, conversion, options, exitCode, index, snapshot, cursor, page, trace, result,
                 history, collect>>

(***************************************************************************)
(* The date actions: analysis of a page, then the batched write phase.     *)
(***************************************************************************)
\* One field change of a record to fix.
Sanitization(path, original, converted) ==
  [fieldPath |-> path, originalValue |-> original, convertedValue |-> converted]

\* The fields of r that are present, with their converted values; the loop
\* moves on at a nested object and at an array without converting it.
Conversions(pol, r) ==
  LET present == SelectSeq(FieldOrder, LAMBDA k : r[k].type # "undefined")
  IN [i \in 1..Len(present) |->
        [key |-> present[i], value |-> r[present[i]],
         converted |-> IF r[present[i]].type \in {"object", "array"} THEN None
                       ELSE attemptDateConversion(pol, r[present[i]])]]

\* The fields that convert and are not yet normalized.
SanitizationsOf(conversions) ==
  LET hits == SelectSeq(conversions, LAMBDA c :
                c.converted.ok /\ ~isAlreadyNormalizedTimestamp(c.value, c.converted.v))
  IN [i \in 1..Len(hits) |-> Sanitization(hits[i].key, hits[i].value, hits[i].converted.v)]

\* findDateFieldsInObject over a flat record.
findDateFieldsInObject(r) == SanitizationsOf(Conversions(SanitizePolicy, r))

\* NormalizeDateFieldAction.analyzeRecord, given the value of the field and
\* its conversion, on the state st = [analysis, acc].
NormalizeClassify(st, r, fieldValue, converted) ==
  IF ~validateBasicRecord(r)
    THEN [analysis |-> [st.analysis EXCEPT !.errors =
                          Append(@, [msg |-> "Invalid record structure", record |-> r])],
          acc |-> st.acc]
  ELSE IF isNullOrEmpty(fieldValue)
    THEN [analysis |-> [st.analysis EXCEPT !.fieldEmpty = @ + 1], acc |-> st.acc]
  ELSE IF ~converted.ok
    THEN [analysis |-> [st.analysis EXCEPT !.fieldFound = @ + 1, !.fieldInvalidDates = @ + 1,
                          !.errors = Append(@, [msg |-> "Cannot convert", record |-> r])],
          acc |-> st.acc]
  ELSE IF isAlreadyNormalizedTimestamp(fieldValue, converted.v)
    THEN [analysis |-> [st.analysis EXCEPT !.fieldFound = @ + 1, !.fieldValidTimestamps = @ + 1],
          acc |-> st.acc]
  ELSE [analysis |-> [st.analysis EXCEPT !.fieldFound = @ + 1, !.fieldConvertibleDates = @ + 1],
        acc |-> Append(st.acc,
                  [record |-> r,
                   sanitizations |-> <<Sanitization(fieldName, fieldValue, converted.v)>>])]

\* SanitizeDateValuesAction.analyzeRecord, given the number of fields found
\* and the sanitizations among them, on the state st = [analysis, acc].
SanitizeClassify(st, r, found, sanitizations) ==
  IF ~validateBasicRecord(r)
    THEN [analysis |-> [st.analysis EXCEPT !.errors =
                          Append(@, [msg |-> "Invalid record structure", record |-> r])],
          acc |-> st.acc]
  ELSE IF Len(sanitizations) = 0
    THEN [analysis |-> [st.analysis EXCEPT !.totalFieldsFound = @ + found], acc |-> st.acc]
  ELSE [analysis |-> [st.analysis EXCEPT !.totalFieldsFound = @ + found,
                        !.recordsWithDates = @ + 1,
                        !.totalFieldsSanitized = @ + Len(sanitizations)],
        acc |-> Append(st.acc, [record |-> r, sanitizations |-> sanitizations])]

\* The loop counts the record, then analyzeRecord of the running action.
Counted(st) == [st EXCEPT !.analysis.processedRecords = @ + 1]

analyzeRecord(pol, st, r) ==
  IF pol = NormalizePolicy
  THEN NormalizeClassify(st, r, r[fieldName], attemptDateConversion(NormalizePolicy, r[fieldName]))
  ELSE SanitizeClassify(st, r, Len(Conversions(SanitizePolicy, r)), findDateFieldsInObject(r))

\* The for-await body of analyzeDateField / analyzeAllRecords.
AnalyzePage ==
  /\ pc = "consume"
  /\ policy \in DatePolicies
  /\ LET F[i \in 0..Len(page)] ==
           IF i = 0 THEN [analysis |-> analysis, acc |-> acc]
           ELSE analyzeRecord(policy, Counted(F[i - 1]), page[i])
         out == F[Len(page)]
     IN /\ acc' = out.acc
        /\ analysis' = IF policy = SanitizePolicy
                       THEN [out.analysis EXCEPT !.batchesProcessed = @ + 1]
                       ELSE out.analysis
  /\ pc' = NextAfterPage(policy, cursor)
  /\ UNCHANGED <<archive, batches, conversion, options, exitCode, index, snapshot, cursor, page, metrics, updatedRecords,
                 oldObjectIds, trace, result, history, batchIndex>>

\* After the scan: applyFixes / applySanitizations runs when something was
\* found, and returns at once in a dry run.
ApplyFixes ==
  /\ pc = "post"
  /\ policy \in DatePolicies
  /\ analysis' = IF policy = SanitizePolicy
                 THEN [analysis EXCEPT !.totalRecords = analysis.processedRecords]
                 ELSE analysis
  /\ pc' = IF Len(acc) > 0 /\ ~dryRun THEN "batch" ELSE "finish"
  /\ UNCHANGED <<archive, batches, conversion, options, exitCode, index, snapshot, cursor, page, metrics, updatedRecords,
                 oldObjectIds, trace, result, history, acc, batchIndex>>

\* A batch processor that writes the record as it was scanned.
ApplyNone(r, sanitizations) == r

\* The record a batch processor builds from a record to fix.
RECURSIVE ApplyAll(_, _)
ApplyAll(r, sanitizations) ==
  IF sanitizations = <<>> THEN r
  ELSE ApplyAll([r EXCEPT ![Head(sanitizations).fieldPath] = Num(Head(sanitizations).convertedValue)],
                Tail(sanitizations))

\* applySanitizations: the final validation before a value is applied.
Throws(pol, batch) ==
  /\ pol = SanitizePolicy
  /\ \E i \in 1..Len(batch) : \E k \in 1..Len(batch[i].sanitizations) :
       ~InRange(Some(batch[i].sanitizations[k].convertedValue))

\* The wrapper function of a policy command: if (!result.success)
\* process.exit(1); otherwise the command returns and the process ends
\* with status 0.
ExitStatus(res) == IF ~res.success THEN 1 ELSE 0

\* A catch block that goes back to scanning instead of returning.
CatchAndRetry == "browse"

\* Where the catch block of execute() leaves the run.
CatchTarget == "done"

\* BatchProcessor.processItems: one turn of the loop up to the upsert.  An
\* error thrown by the processor is rethrown and reaches execute().
BatchStart ==
  /\ pc = "batch"
  /\ LET size == HitsPerPage(batchSize)
         batch == SubSeq(acc, batchIndex + 1, Min(batchIndex + size, Len(acc)))
     IN IF batchIndex >= Len(acc)
        THEN /\ pc' = "finish"
             /\ UNCHANGED <<updatedRecords, trace, result, exitCode>>
        ELSE IF Throws(policy, batch)
        THEN /\ pc' = CatchTarget
             /\ trace' = Append(trace, Event("throw", "failed", 0, 0, <<>>, <<>>))
             /\ result' = [returned |-> TRUE, success |-> FALSE, metrics |-> metrics]
             /\ exitCode' = ExitStatus(result')
             /\ UNCHANGED updatedRecords
        ELSE /\ pc' = "save"
             /\ updatedRecords' =
                  [i \in 1..Len(batch) |-> ApplyAll(batch[i].record, batch[i].sanitizations)]
             /\ UNCHANGED <<trace, result, exitCode>>
  /\ UNCHANGED <<archive, batches, conversion, options, index, snapshot, cursor, page, metrics, oldObjectIds,
                 history, collect>>

(***************************************************************************)
(* saveRecords and deleteRecords: no call on an empty list.                *)
(***************************************************************************)
SaveRequest ==
  /\ pc = "save"
  /\ IF Len(updatedRecords) = 0
     THEN /\ pc' = AfterWrite(policy, "save", cursor)
          /\ trace' = trace
     ELSE /\ pc' = "await_save"
          /\ trace' = Append(trace, Event("save", "pending", 0, 0, updatedRecords, <<>>))
  /\ UNCHANGED <<archive, batches, conversion, options, exitCode, index, snapshot, cursor, page,
                 metrics, updatedRecords, oldObjectIds, result, history, collect>>

\* The upsert completes; in processItems the loop moves on by batchSize.
SaveResponse ==
  /\ pc = "await_save"
  /\ index' = StoreSaveObjects(index, trace[LastCall].records)
  /\ trace' = [trace EXCEPT ![LastCall].status = "ok"]
  /\ pc' = AfterWrite(policy, "save", cursor)
  /\ batchIndex' = IF policy \in DatePolicies
                   THEN batchIndex + HitsPerPage(batchSize) ELSE batchIndex
  /\ UNCHANGED <<archive, batches, conversion, options, exitCode, snapshot, cursor, page, metrics, updatedRecords,
                 oldObjectIds, result, history, acc, analysis>>

DeleteRequest ==
  /\ pc = "delete"
  /\ IF Len(oldObjectIds) = 0
     THEN /\ pc' = AfterWrite(policy, "delete", cursor)
          /\ trace' = trace
     ELSE /\ pc' = "await_delete"
          /\ trace' = Append(trace, Event("delete", "pending", 0, 0, <<>>, oldObjectIds))
  /\ UNCHANGED <<archive, batches, conversion, options, exitCode, index, snapshot, cursor, page,
                 metrics, updatedRecords, oldObjectIds, result, history, collect>>

DeleteResponse ==
  /\ pc = "await_delete"
  /\ index' = StoreDeleteObjects(index, trace[LastCall].ids)
  /\ trace' = [trace EXCEPT ![LastCall].status = "ok"]
  /\ pc' = AfterWrite(policy, "delete", cursor)
  /\ UNCHANGED <<archive, batches, conversion, options, exitCode, snapshot, cursor, page, metrics,
                 updatedRecords, oldObjectIds, result, history, collect>>

(***************************************************************************)
(* execute(): the outcome of processRecords.                               *)
(***************************************************************************)
\* processRecords returned: execute() reports success with the metrics.
Finish ==
  /\ pc = "finish"
  /\ result' = [returned |-> TRUE, success |-> TRUE, metrics |-> metrics]
  /\ exitCode' = ExitStatus(result')
  /\ pc' = "done"
  /\ UNCHANGED <<archive, batches, conversion, options, index, snapshot, cursor, page,
                 metrics, updatedRecords, oldObjectIds, trace, history, collect>>

\* The awaited store call rejects: the error propagates to the catch block
\* of execute(), which returns success=false with the metrics so far.
StoreFail ==
  /\ pc \in {"await_browse", "await_save", "await_delete"}
  /\ trace' = [trace EXCEPT ![LastCall].status = "failed"]
  /\ result' = [returned |-> TRUE, success |-> FALSE, metrics |-> metrics]
  /\ exitCode' = ExitStatus(result')
  /\ pc' = CatchTarget
  /\ UNCHANGED <<archive, batches, conversion, options, index, snapshot, cursor, page,
                 metrics, updatedRecords, oldObjectIds, history, collect>>

\* The process is killed.  A write that is in flight has reached the store
\* or has not.
Crash ==
  /\ pc \in {"browse", "await_browse", "consume", "save", "await_save",
             "delete", "await_delete", "post", "finish", "batch"}
  /\ \E applied \in BOOLEAN :
       index' = IF applied /\ pc = "await_save"
                  THEN StoreSaveObjects(index, trace[LastCall].records)
                ELSE IF applied /\ pc = "await_delete"
                  THEN StoreDeleteObjects(index, trace[LastCall].ids)
                ELSE index
  /\ pc' = "crashed"
  /\ UNCHANGED <<archive, batches, conversion, options, exitCode, snapshot, cursor, page, metrics,
                 updatedRecords, oldObjectIds, trace, result, history, collect>>

Next ==
  \/ Start
  \/ Confirm
  \/ BrowseRequest
  \/ BrowseResponse
  \/ ProcessPage
  \/ CollectPage
  \/ PostScan
  \/ AnalyzePage
  \/ ApplyFixes
  \/ BatchStart
  \/ SaveRequest
  \/ SaveResponse
  \/ DeleteRequest
  \/ DeleteResponse
  \/ Finish
  \/ StoreFail
  \/ Crash

Spec == Init /\ [][Next]_vars

(***************************************************************************)
(* Running an identifier-rewrite action again on the index a run left.     *)
(***************************************************************************)
InitRerun ==
  /\ Init
  /\ policy \in RewritePolicies
  /\ ~dryRun

\* The command is started again, with the same options, on the index as the
\* run before it left it: a new action object, with new counters and lists.
Rerun ==
  /\ pc \in {"done", "crashed"}
  /\ Len(runs) < MaxRuns
  /\ runs' = Append(runs, [start |-> index0,
                           success |-> result.returned /\ result.success])
  /\ index0' = index
  /\ snapshot' = <<>>
  /\ pc' = "start"
  /\ cursor' = 0
  /\ page' = <<>>
  /\ metrics' = initializeMetrics
  /\ updatedRecords' = <<>>
  /\ oldObjectIds' = <<>>
  /\ trace' = <<>>
  /\ result' = NoResult
  /\ exitCode' = -1
  /\ acc' = <<>>
  /\ analysis' = initializeDateMetrics
  /\ batchIndex' = 0
  /\ UNCHANGED <<archive, batches, conversion, options, index>>

NextRerun ==
  \/ Start
  \/ Confirm
  \/ BrowseRequest
  \/ BrowseResponse
  \/ ProcessPage
  \/ SaveRequest
  \/ SaveResponse
  \/ DeleteRequest
  \/ DeleteResponse
  \/ Finish
  \/ StoreFail
  \/ Crash
  \/ Rerun

SpecRerun == InitRerun /\ [][NextRerun]_vars

(***************************************************************************)
(* Running normalize-date-field again on the index a run left.             *)
(***************************************************************************)
InitRenormalize ==
  /\ Init
  /\ policy = NormalizePolicy
  /\ ~dryRun

NextRenormalize ==
  \/ Start
  \/ Confirm
  \/ BrowseRequest
  \/ BrowseResponse
  \/ AnalyzePage
  \/ ApplyFixes
  \/ BatchStart
  \/ SaveRequest
  \/ SaveResponse
  \/ Finish
  \/ StoreFail
  \/ Crash
  \/ Rerun

SpecRenormalize == InitRenormalize /\ [][NextRenormalize]_vars

\* The index an executing run of a rewrite action leaves when no call fails
\* and the process is not killed: page after page of the scan, the upsert
\* of the changed records and then the delete of their old identifiers.
FailureFreeRun(pol, bs, idx) ==
  LET snap == SelectSeq(idx, LAMBDA r : StoreMatches(Filters(pol), r))
      hpp == HitsPerPage(bs)
      pages == (Len(snap) + hpp - 1) \div hpp
      F[n \in 0..pages] ==
        IF n = 0 THEN idx
        ELSE LET results == PageResults(pol,
                              ValidRecords(pol, StoreBrowse(snap, hpp, (n - 1) * hpp).hits))
             IN StoreDeleteObjects(StoreSaveObjects(F[n - 1], UpdatedRecordsOf(results)),
                                   OldObjectIdsOf(results))
  IN F[pages]

(***************************************************************************)
(* Reading the trace.                                                      *)
(***************************************************************************)
Positions(op) == {i \in 1..Len(trace) : trace[i].op = op}

\* The latest position before j that holds an `op` entry, 0 if there is none.
LastBefore(op, j) ==
  LET S == {i \in Positions(op) : i < j}
  IN IF S = {} THEN 0 ELSE CHOOSE i \in S : \A k \in S : k <= i

RECURSIVE SumLen(_)
SumLen(S) ==
  IF S = {} THEN 0
  ELSE LET i == CHOOSE k \in S : TRUE
       IN Len(trace[i].records) + SumLen(S \ {i})

\* The index obtained from idx by the completed writes of the trace, in order.
Replay(idx) ==
  LET F[i \in 0..Len(trace)] ==
        IF i = 0 THEN idx
        ELSE IF trace[i].op = "save" /\ trace[i].status = "ok"
          THEN StoreSaveObjects(F[i - 1], trace[i].records)
        ELSE IF trace[i].op = "delete" /\ trace[i].status = "ok"
          THEN StoreDeleteObjects(F[i - 1], trace[i].ids)
        ELSE F[i - 1]
  IN F[Len(trace)]

Failed == {i \in Calls : trace[i].status = "failed"}

Success == pc = "done" /\ result.returned /\ result.success

Rewriting == policy \in RewritePolicies

(***************************************************************************)
(* Properties.                                                             *)
(***************************************************************************)
\* C1: in a run with dry-run active no saveObjects call and no deleteObjects
\* call is ever issued, whatever the index holds and however many records
\* were classified as changes; the index stays as the run found it.
C1_DryRunPurity ==
  dryRun => /\ Positions("save") = {}
            /\ Positions("delete") = {}
            /\ index = index0

\* A dry run that completed and classified at least two records as changes.
C1_Witness ==
  /\ dryRun
  /\ Success
  /\ metrics.recordsWithChanges >= 2

\* C2: in an executing identifier-rewrite run every delete call comes after
\* a completed upsert call of the same page, and that upsert carries, under
\* its new objectID, the record of each old objectID the delete carries.
C2_UpsertBeforeDelete ==
  Rewriting =>
    \A j \in Positions("delete") :
      LET p == LastBefore("processed", j)
          y == LastBefore("yield", j)
      IN \E i \in Positions("save") :
           /\ p < i /\ i < j
           /\ trace[i].status = "ok"
           /\ \A k \in 1..Len(trace[j].ids) :
                \E m \in 1..Len(trace[i].records), n \in 1..Len(trace[y].records) :
                  /\ trace[y].records[n].objectID = Str(trace[j].ids[k])
                  /\ trace[i].records[m] =
                       [trace[y].records[n] EXCEPT !.objectID = trace[i].records[m].objectID]

\* An executing rewrite run completed a delete of two old identifiers.
C2_Witness ==
  /\ Rewriting
  /\ \E j \in Positions("delete") :
       trace[j].status = "ok" /\ Len(trace[j].ids) >= 2

\* C3: in an identifier-rewrite run the pending upsert list and the pending
\* delete list of a page have the same length and the i-th identifier to
\* delete is the old objectID of the i-th record to upsert; in a run that
\* completed, a scanned record was upserted under a new identifier exactly
\* when its old identifier was deleted.
C3_ListsAligned ==
  Rewriting =>
    /\ \A p \in Positions("processed") :
         /\ Len(trace[p].records) = Len(trace[p].ids)
         /\ \A i \in 1..Len(trace[p].ids) :
              \E n \in 1..Len(trace[p - 1].records) :
                /\ trace[p - 1].records[n].objectID = Str(trace[p].ids[i])
                /\ trace[p].records[i].objectID # trace[p - 1].records[n].objectID
                /\ trace[p].records[i] =
                     [trace[p - 1].records[n] EXCEPT !.objectID = trace[p].records[i].objectID]
    /\ \A j \in Positions("save") \cup Positions("delete") :
         LET p == LastBefore("processed", j)
         IN IF trace[j].op = "save" THEN trace[j].records = trace[p].records
            ELSE trace[j].ids = trace[p].ids
    /\ (Success /\ ~dryRun) =>
         \A y \in Positions("yield") :
           \A n \in 1..Len(trace[y].records) :
             LET r == trace[y].records[n]
                 upserted == \E i \in Positions("save") :
                               \E m \in 1..Len(trace[i].records) :
                                 /\ LastBefore("yield", i) = y
                                 /\ trace[i].records[m].objectID # r.objectID
                                 /\ trace[i].records[m] =
                                      [r EXCEPT !.objectID = trace[i].records[m].objectID]
                 deleted == \E j \in Positions("delete") :
                              /\ LastBefore("yield", j) = y
                              /\ \E k \in 1..Len(trace[j].ids) : Str(trace[j].ids[k]) = r.objectID
             IN upserted <=> deleted

\* A page with two changes was flushed by a run that completed.
C3_Witness ==
  /\ Rewriting
  /\ Success
  /\ \E j \in Positions("delete") : Len(trace[j].ids) >= 2
  /\ \E y \in Positions("yield") : Len(trace[y].records) > Len(trace[y + 1].records)

\* The run stopped after the upsert of a page and before its delete took
\* effect: killed before the delete call, or the delete call was rejected.
StoppedBetweenUpsertAndDelete ==
  /\ Rewriting
  /\ Calls # {}
  /\ \/ pc = "crashed" /\ trace[LastCall].op = "save" /\ trace[LastCall].status = "ok"
     \/ pc = "done" /\ trace[LastCall].op = "delete" /\ trace[LastCall].status = "failed"

\* C4: when an executing identifier-rewrite run stops after a page's upsert
\* and before its delete, every record changed on that page is in the index
\* both as its old version under the old objectID and as its new version
\* under the new objectID.
C4_BothVersionsPresent ==
  StoppedBetweenUpsertAndDelete =>
    \A i \in 1..Len(oldObjectIds) :
      /\ updatedRecords[i] \in Range(index)
      /\ \E n \in 1..Len(page) :
           /\ page[n].objectID = Str(oldObjectIds[i])
           /\ page[n] \in Range(index)

\* C6: the first scan request carries no cursor and every later one carries
\* the cursor of the previous response; every response is followed by one
\* yield of its valid records; no request follows a response without
\* cursor; a run that completes has made one request per page and has been
\* handed every item of the result set, in order.
C6_CursorProtocol ==
  /\ \A j \in Positions("browse") :
       LET i == LastBefore("browse", j)
       IN IF i = 0 THEN trace[j].cursor = 0
          ELSE /\ trace[i].status = "ok"
               /\ trace[i].next # 0
               /\ trace[j].cursor = trace[i].next
               /\ Cardinality({y \in Positions("yield") : i < y /\ y < j}) = 1
  /\ \A j \in Positions("browse") :
       trace[j].status = "ok" => /\ j < Len(trace)
                                 /\ trace[j + 1].op = "yield"
  /\ \A y \in Positions("yield") : trace[y - 1].op = "browse"
  /\ Success =>
       LET last == LastBefore("browse", Len(trace) + 1)
           Got[i \in 0..Len(trace)] ==
             IF i = 0 THEN <<>>
             ELSE IF trace[i].op = "browse" THEN Got[i - 1] \o trace[i].records
             ELSE Got[i - 1]
       IN /\ last # 0
          /\ trace[last].next = 0
          /\ Got[Len(trace)] = snapshot
          /\ Cardinality(Positions("browse")) = Cardinality(Positions("yield"))

\* A run that completed after three scan requests.
C6_Witness ==
  /\ Success
  /\ Cardinality(Positions("browse")) >= 3

\* C7: at most one store call is in flight; a call is issued only when every
\* earlier call has completed; in execute mode the request for the next
\* page is issued only after the upsert and the delete of the changes of
\* the page before it have completed.
C7_StrictlySequential ==
  /\ Cardinality(Pending) <= 1
  /\ \A i, j \in Calls : i < j => trace[i].status = "ok"
  /\ (Rewriting /\ ~dryRun) =>
       \A j \in Positions("browse") :
         LET p == LastBefore("processed", j)
         IN (p # 0 /\ Len(trace[p].records) > 0) =>
              /\ \E i \in Positions("save") :
                   p < i /\ i < j /\ trace[i].status = "ok"
              /\ \E i \in Positions("delete") :
                   p < i /\ i < j /\ trace[i].status = "ok"

\* The request for a second page went out after the first page's flush.
C7_Witness ==
  /\ Rewriting
  /\ \E j \in Positions("browse") :
       /\ trace[j].status = "pending"
       /\ \E i \in Positions("delete") : i < j

\* C8: a rejected store call is the last call of the run: no scan, upsert
\* or delete follows it; execute() returns (it does not throw) success=false
\* with the metrics gathered so far, and the index holds exactly the writes
\* completed before the failure.
C8_FailureIsFatal ==
  /\ \A i \in Failed : i = LastCall
  /\ Failed # {} =>
       /\ pc = "done"
       /\ result.returned
       /\ ~result.success
       /\ result.metrics = metrics
       /\ index = Replay(index0)

\* The delete of a second page was rejected after the first page was flushed.
C8_Witness ==
  /\ Failed # {}
  /\ \E j \in Positions("delete") : trace[j].status = "ok"
  /\ metrics.batchesProcessed >= 2
  /\ index # index0

\* What makes execute() report a failure: a rejected store call, or an
\* error thrown in the write phase; the validation loop is not among them.
Aborted == Failed \cup Positions("throw")

\* The accounting of the validation loop, for one of two notions of valid
\* item: the base check alone, or the validateRecord of the running action.
Accounting(baseCheck) ==
  LET Valid(r) == IF baseCheck THEN validateBasicRecord(r) ELSE validateRecord(policy, r)
  IN
  /\ \A y \in Positions("yield") :
       LET hits == trace[y - 1].records
       IN trace[y].records = SelectSeq(hits, Valid)
  /\ metrics.totalRecords = SumLen(Positions("yield"))
  /\ Len(SelectSeq(metrics.errors, LAMBDA e : e.msg = "Invalid record structure"))
       = SumLen({j \in Positions("browse") : trace[j].status = "ok"}) - SumLen(Positions("yield"))
  /\ \A j \in Positions("browse") :
       \A n \in 1..Len(trace[j].records) :
         ~Valid(trace[j].records[n]) =>
           \E k \in 1..Len(metrics.errors) : metrics.errors[k].record = trace[j].records[n]
  /\ (result.returned /\ ~result.success) => Aborted # {}

\* C9 as stated: the items of a page that have a string objectID are yielded
\* in order and counted in totalRecords, the others go to the error list,
\* and the run goes on.
C9_Original == Accounting(TRUE)

\* C9: the items of a page that pass the validateRecord of the running
\* action (for the two identifier-rewrite actions: string objectID, non-blank
\* title and non-blank resourceType) are yielded in order and counted in
\* totalRecords, the others, among them every item without a string
\* objectID, go to the error list, and the run goes on.
C9_ValidationAccounting ==
  /\ Accounting(FALSE)
  /\ \A y \in Positions("yield") :
       \A n \in 1..Len(trace[y].records) : validateBasicRecord(trace[y].records[n])

\* A rewrite run completed over two pages that held a valid item, an item
\* without a string objectID and an item with a string objectID that its
\* validateRecord rejects.
C9_Witness ==
  /\ Rewriting
  /\ Success
  /\ metrics.totalRecords >= 1
  /\ \E k \in 1..Len(metrics.errors) : ~validateBasicRecord(metrics.errors[k].record)
  /\ \E k \in 1..Len(metrics.errors) :
       /\ metrics.errors[k].msg = "Invalid record structure"
       /\ validateBasicRecord(metrics.errors[k].record)
  /\ metrics.batchesProcessed >= 2

\* C5: an executing rewrite run that completes after runs that failed
\* part-way leaves the index a failure-free run leaves from the index the
\* first run started on; a run on the index a completed run left issues no
\* upsert and no delete.
C5_RerunConverges ==
  /\ (Success /\ runs # <<>> /\ \A k \in 1..Len(runs) : ~runs[k].success) =>
       Range(index) = Range(FailureFreeRun(policy, batchSize, runs[1].start))
  /\ (runs # <<>> /\ runs[Len(runs)].success) =>
       Positions("save") = {} /\ Positions("delete") = {}

\* C10: no record's content makes a run of a date action abort: execute()
\* of normalize-date-field or sanitize-date-values reports a failure only
\* when a store call was rejected.
C10_NoRecordAborts ==
  (policy \in DatePolicies /\ result.returned /\ ~result.success) => Failed # {}

(***************************************************************************)
(* restore-index: the command and RestoreIndexAction.  The command is      *)
(* given --index; it has no --execute, --dry-run or --skip-confirmation    *)
(* option, so the action runs with dryRun and skipConfirmation undefined.  *)
(***************************************************************************)
RestoreCommand == "restore-index"

\* What the scan loop of a policy holds: a restore never touches it.
scan == <<snapshot, cursor, page, updatedRecords, oldObjectIds>>

\* The records a backup may hold: two items, an item without objectID and
\* an item whose objectID is the empty string.
BackupRecords ==
  << Item(D("a"), Str("a"), Str("b"), Str("event"), Undef, Undef),
     Item(D("c"), Str("c"), Str("d"), Str("event"), Undef, Undef),
     Item(Undef, Str("g"), Str("h"), Str("event"), Undef, Undef),
     Item(Str(""), Str("k"), Str("l"), Str("event"), Undef, Undef) >>

\* The input directories of the model.
BackupDirs ==
  [records : {Absent, File(<<>>), File(SubSeq(BackupRecords, 1, 1)),
              File(SubSeq(BackupRecords, 1, 3)), File(SubSeq(BackupRecords, 4, 4))},
   settings : {Absent, Corrupt, File(<<"settings">>)},
   rules : {Absent, File(<<>>), File(<<"rule">>)},
   synonyms : {Absent, File(<<>>), File(<<"synonym">>)}]

InitRestore ==
  /\ policy = RestoreCommand
  /\ execute = FALSE
  /\ dryRun = FALSE
  /\ skipConfirmation = FALSE
  /\ batchSize \in 0..MaxBatchSize
  /\ files \in BackupDirs
  /\ indexName = "products"
  /\ keys = ""
  /\ index \in {idx \in Indexes(SlugPolicy) : Len(idx) <= 1}
  /\ index0 = index
  /\ runs = <<>>
  /\ FreshRun

\* The restore-index command: await restoreIndex(actionOptions), and the
\* result that restoreIndex returns is dropped.  process.exit(1) is in the
\* catch block only, and execute() never throws.
RestoreExitStatus(res) == 0

\* An error thrown inside processRecords: execute() catches it and returns
\* success=false; the process ends with the status of the command.
Thrown ==
  /\ result' = [returned |-> TRUE, success |-> FALSE, metrics |-> metrics']
  /\ exitCode' = RestoreExitStatus(result')
  /\ pc' = "done"

\* if (!this.options.skipConfirmation && !this.options.dryRun)
RestorePrompts(skip, dry) == ~skip /\ ~dry

\* if (!this.options.indexName): promptForIndexName, which ends the process
\* on a blank answer; the run goes on at `next`.
PromptForIndexName(next) ==
  IF indexName # ""
  THEN /\ pc' = next
       /\ UNCHANGED <<trace, exitCode>>
  ELSE \E answer \in {"", "products"} :
         /\ trace' = Append(trace, Event("promptIndexName", "ok", 0, 0, <<>>, <<answer>>))
         /\ IF Trim(answer) = ""
            THEN /\ exitCode' = 1
                 /\ pc' = "exited"
            ELSE /\ pc' = next
                 /\ UNCHANGED exitCode

\* processRecords up to the confirmation.
RestoreStart ==
  /\ pc = "start"
  /\ PromptForIndexName(IF RestorePrompts(skipConfirmation, dryRun) THEN "confirm" ELSE "load")
  /\ UNCHANGED <<archive, batches, conversion, options, index, metrics, result, scan, history, collect>>

\* if (!confirmed), on the string that promptUser resolved.
Declined(confirmed) == ~Truthy(Str(confirmed))

\* const confirmed = await promptUser(...): the trimmed line the user
\* typed.
RestoreConfirm ==
  /\ pc = "confirm"
  /\ \E confirmed \in {"", "yes", "no"} :
       /\ trace' = Append(trace, Event("prompt", "ok", 0, 0, <<>>, <<confirmed>>))
       /\ IF Declined(confirmed)
          THEN /\ UNCHANGED metrics
               /\ Thrown
          ELSE /\ pc' = "load"
               /\ UNCHANGED <<metrics, result, exitCode>>
  /\ UNCHANGED <<archive, batches, conversion, options, index, scan, history, collect>>

\* loadBackupFiles: every file that is found is parsed; a file that does
\* not parse, or no file at all, is an error.
LoadBackupFiles ==
  /\ pc = "load"
  /\ IF \E c \in DOMAIN files : files[c].found /\ ~files[c].parses
     THEN /\ metrics' = [metrics EXCEPT !.errors = Append(@, "Failed to load file")]
          /\ Thrown
     ELSE IF \A c \in DOMAIN files : ~files[c].found
     THEN /\ UNCHANGED metrics
          /\ Thrown
     ELSE /\ pc' = "records"
          /\ UNCHANGED <<metrics, result, exitCode>>
  /\ UNCHANGED <<archive, batches, conversion, options, index, trace, scan, history, collect>>

\* restoreData.records?.length and its like: the file was found and the
\* array it holds is not empty.
HasLength(file) == file.found /\ Len(file.content) > 0

\* restoreData.settings: the file was found; the object it holds is truthy.
HasSettings(file) == file.found

\* What the store holds after the call.
StoreReplace(idx, op, payload) == IF op = "replaceAllObjects" THEN payload ELSE idx

\* One component of restoreIndex: no call when the component is not there;
\* otherwise the call, which the store completes or rejects.  A rejection
\* is rethrown by the catch block of restoreIndex.
RestoreComponent(present, op, payload, next) ==
  IF ~present
  THEN /\ pc' = next
       /\ UNCHANGED <<index, trace, metrics, result, exitCode>>
  ELSE \E completes \in BOOLEAN :
         IF completes
         THEN /\ trace' = Append(trace, Event(op, "ok", 0, HitsPerPage(batchSize), payload, <<>>))
              /\ index' = StoreReplace(index, op, payload)
              /\ metrics' = IF op = "replaceAllObjects"
                            THEN [metrics EXCEPT !.processedRecords = Len(payload)]
                            ELSE metrics
              /\ pc' = next
              /\ UNCHANGED <<result, exitCode>>
         ELSE /\ trace' = Append(trace, Event(op, "failed", 0, HitsPerPage(batchSize), payload, <<>>))
              /\ metrics' = [metrics EXCEPT !.errors = Append(@, "Failed to restore index")]
              /\ Thrown
              /\ UNCHANGED index

\* restoreIndex: the dry-run branch returns without a call; otherwise the
\* records are replaced.
RestoreRecords ==
  /\ pc = "records"
  /\ IF dryRun
     THEN /\ pc' = "return"
          /\ UNCHANGED <<index, trace, metrics, result, exitCode>>
     ELSE RestoreComponent(HasLength(files.records), "replaceAllObjects",
                           files.records.content, "settings")
  /\ UNCHANGED <<archive, batches, conversion, options, scan, history, collect>>

RestoreSettings ==
  /\ pc = "settings"
  /\ RestoreComponent(HasSettings(files.settings), "setSettings",
                      files.settings.content, "rules")
  /\ UNCHANGED <<archive, batches, conversion, options, scan, history, collect>>

RestoreRules ==
  /\ pc = "rules"
  /\ RestoreComponent(HasLength(files.rules), "saveRules", files.rules.content, "synonyms")
  /\ UNCHANGED <<archive, batches, conversion, options, scan, history, collect>>

RestoreSynonyms ==
  /\ pc = "synonyms"
  /\ RestoreComponent(HasLength(files.synonyms), "saveSynonyms",
                      files.synonyms.content, "return")
  /\ UNCHANGED <<archive, batches, conversion, options, scan, history, collect>>

\* restoreIndex returned: execute() reports success and the command ends.
RestoreReturn ==
  /\ pc = "return"
  /\ result' = [returned |-> TRUE, success |-> TRUE, metrics |-> metrics]
  /\ exitCode' = RestoreExitStatus(result')
  /\ pc' = "done"
  /\ UNCHANGED <<archive, batches, conversion, options, index, metrics, trace, scan, history, collect>>

NextRestore ==
  \/ RestoreStart
  \/ RestoreConfirm
  \/ LoadBackupFiles
  \/ RestoreRecords
  \/ RestoreSettings
  \/ RestoreRules
  \/ RestoreSynonyms
  \/ RestoreReturn

SpecRestore == InitRestore /\ [][NextRestore]_vars

(***************************************************************************)
(* backup-index and restore-index from the command line on: the action     *)
(* object is constructed, then execute() runs processRecords.              *)
(***************************************************************************)
BackupCommand == "backup-index"

\* searchRulesParams / searchSynonymsParams: hitsPerPage
SearchPageSize == 1000

\* The numbers of rules, and of synonyms, an index of the model holds.
SearchCounts == {0, 1, SearchPageSize, SearchPageSize + 1}

InitBackup ==
  /\ policy \in {BackupCommand, RestoreCommand}
  /\ execute = FALSE
  /\ dryRun = FALSE
  /\ skipConfirmation = FALSE
  /\ batchSize \in 0..MaxBatchSize
  /\ indexName \in {"", "products"}
  /\ keys = ""
  /\ files \in IF policy = RestoreCommand THEN BackupDirs ELSE {NoFiles}
  /\ index \in {idx \in Indexes(SlugPolicy) :
                  DistinctIds(idx) /\ (policy = RestoreCommand => Len(idx) <= 1)}
  /\ index0 = index
  /\ runs = <<>>
  /\ rules \in IF policy = BackupCommand THEN SearchCounts ELSE {0}
  /\ synonyms \in IF policy = BackupCommand THEN SearchCounts ELSE {0}
  /\ pc = "construct"
  /\ FreshAction

\* new BackupIndexAction(options) / new RestoreIndexAction(options): the
\* base constructor calls validateAndGetConfig, which throws when no index
\* name was given; the error leaves backupIndex / restoreIndex and reaches
\* the catch block of the command, which ends the process with status 1.
Construct ==
  /\ pc = "construct"
  /\ IF indexName = ""
     THEN /\ exitCode' = 1
          /\ pc' = "exited"
     ELSE /\ pc' = IF policy = BackupCommand THEN "backup" ELSE "start"
          /\ UNCHANGED exitCode
  /\ UNCHANGED <<archive, batches, conversion, options, index, metrics, trace, result, scan,
                 history, collect>>

\* BackupIndexAction.processRecords up to the first request.
BackupStart ==
  /\ pc = "backup"
  /\ PromptForIndexName("retrieve_records")
  /\ UNCHANGED <<archive, batches, conversion, options, index, metrics, result, scan,
                 history, collect>>

\* The response to searchRules or searchSynonyms: the first page.
StoreSearch(count, hitsPerPage) == Min(count, hitsPerPage)

\* A search that returns everything at once.
StoreSearchAll(count, hitsPerPage) == count

\* The catch block of a retrieve method: the error is recorded and
\* rethrown, and execute() reports the failure.
RetrieveFails(op) ==
  /\ trace' = Append(trace, Event(op, "failed", 0, 0, <<>>, <<>>))
  /\ metrics' = [metrics EXCEPT !.errors = Append(@, "Failed to retrieve")]
  /\ Thrown

\* retrieveRecords: one turn of the while loop, a browse call that the
\* store completes or rejects.
RetrieveRecords ==
  /\ pc = "retrieve_records"
  /\ \E completes \in BOOLEAN :
       IF completes
       THEN LET snap == IF cursor = 0 THEN index ELSE snapshot
                response == StoreBrowse(snap, HitsPerPage(batchSize), cursor)
            IN /\ snapshot' = snap
               /\ backupData' = [backupData EXCEPT !.records = @ \o response.hits]
               /\ metrics' = [metrics EXCEPT !.processedRecords = @ + Len(response.hits)]
               /\ cursor' = response.cursor
               /\ trace' = Append(trace,
                                  [Event("browse", "ok", cursor, HitsPerPage(batchSize),
                                         response.hits, <<>>) EXCEPT !.next = response.cursor])
               /\ pc' = IF response.cursor = 0 THEN "retrieve_settings" ELSE "retrieve_records"
               /\ UNCHANGED <<result, exitCode>>
       ELSE /\ RetrieveFails("browse")
            /\ UNCHANGED <<snapshot, backupData, cursor>>
  /\ UNCHANGED <<batches, conversion, options, index, page, updatedRecords, oldObjectIds,
                 history, collect, rules, synonyms>>

\* retrieveSettings: getSettings.
RetrieveSettings ==
  /\ pc = "retrieve_settings"
  /\ \E completes \in BOOLEAN :
       IF completes
       THEN /\ trace' = Append(trace, Event("getSettings", "ok", 0, 0, <<>>, <<>>))
            /\ pc' = "retrieve_rules"
            /\ UNCHANGED <<metrics, result, exitCode>>
       ELSE RetrieveFails("getSettings")
  /\ UNCHANGED <<archive, batches, conversion, options, index, scan, history, collect>>

\* retrieveRules: backupData.rules = response.hits of one searchRules call.
RetrieveRules ==
  /\ pc = "retrieve_rules"
  /\ \E completes \in BOOLEAN :
       IF completes
       THEN /\ trace' = Append(trace, Event("searchRules", "ok", 0, SearchPageSize, <<>>, <<>>))
            /\ backupData' = [backupData EXCEPT !.rules = StoreSearch(rules, SearchPageSize)]
            /\ pc' = "retrieve_synonyms"
            /\ UNCHANGED <<metrics, result, exitCode>>
       ELSE /\ RetrieveFails("searchRules")
            /\ UNCHANGED backupData
  /\ UNCHANGED <<batches, conversion, options, index, scan, history, collect, rules, synonyms>>

\* retrieveSynonyms: backupData.synonyms = response.hits of one
\* searchSynonyms call.
RetrieveSynonyms ==
  /\ pc = "retrieve_synonyms"
  /\ \E completes \in BOOLEAN :
       IF completes
       THEN /\ trace' = Append(trace, Event("searchSynonyms", "ok", 0, SearchPageSize, <<>>, <<>>))
            /\ backupData' = [backupData EXCEPT !.synonyms = StoreSearch(synonyms, SearchPageSize)]
            /\ pc' = "create_files"
            /\ UNCHANGED <<metrics, result, exitCode>>
       ELSE /\ RetrieveFails("searchSynonyms")
            /\ UNCHANGED backupData
  /\ UNCHANGED <<batches, conversion, options, index, scan, history, collect, rules, synonyms>>

\* createBackupFiles: a file for every component that is not empty (the
\* settings of an index never are); processRecords returns and execute()
\* reports success.
CreateBackupFiles ==
  /\ pc = "create_files"
  /\ trace' = Append(trace,
                     Event("writeFiles", "ok", 0, 0, backupData.records,
                           (IF Len(backupData.records) > 0 THEN <<"records">> ELSE <<>>)
                           \o <<"settings">>
                           \o (IF backupData.rules > 0 THEN <<"rules">> ELSE <<>>)
                           \o (IF backupData.synonyms > 0 THEN <<"synonyms">> ELSE <<>>)))
  /\ result' = [returned |-> TRUE, success |-> TRUE, metrics |-> metrics]
  /\ exitCode' = RestoreExitStatus(result')
  /\ pc' = "done"
  /\ UNCHANGED <<archive, batches, conversion, options, index, metrics, scan, history, collect>>

NextBackup ==
  \/ Construct
  \/ BackupStart
  \/ RetrieveRecords
  \/ RetrieveSettings
  \/ RetrieveRules
  \/ RetrieveSynonyms
  \/ CreateBackupFiles
  \/ RestoreStart
  \/ RestoreConfirm
  \/ LoadBackupFiles
  \/ RestoreRecords
  \/ RestoreSettings
  \/ RestoreRules
  \/ RestoreSynonyms
  \/ RestoreReturn

SpecBackup == InitBackup /\ [][NextBackup]_vars

\* The store calls that change the index.
Mutating ==
  {i \in 1..Len(trace) :
     trace[i].op \in {"save", "delete", "replaceAllObjects", "setSettings",
                      "saveRules", "saveSynonyms"}}

(***************************************************************************)
(* The confirmation of a policy command.                                   *)
(***************************************************************************)
\* C15: in execute mode a policy asks for confirmation exactly once, and
\* it does so before its first scan request: no prompt follows a store
\* call.  When the answer, read as the program reads it (in lower case),
\* is not "yes", the run makes no scan, upsert or delete call at all.  In
\* a dry run there is no prompt.
C15_ConfirmOnceBeforeScan ==
  LET asked == Positions("prompt")
  IN /\ dryRun => asked = {}
     /\ Cardinality(asked) <= 1
     /\ (~dryRun /\ pc \notin {"start", "prompt"}) => Cardinality(asked) = 1
     /\ \A p \in asked : \A c \in Calls : p < c
     /\ \A p \in asked :
          toLowerCase(trace[p].ids[1]) # "yes" => (Calls = {} /\ pc = "cancelled")
     /\ Calls # {} => (dryRun \/ \E p \in asked : toLowerCase(trace[p].ids[1]) = "yes")

\* An executing run that was confirmed, has scanned and written, and has
\* returned.
C15_Witness ==
  /\ ~dryRun
  /\ Success
  /\ Positions("prompt") # {}
  /\ Positions("save") # {}

(***************************************************************************)
(* The batch size.                                                         *)
(***************************************************************************)
\* The number of items a bulk write call carries.
Carried(e) == IF e.op = "delete" THEN Len(e.ids) ELSE Len(e.records)

\* C12: the page size of every scan request is 1000 when no batch size was
\* given and never exceeds 10000, whatever batch size the user gave; no
\* bulk write call carries more than 10000 items; getBatchSize returns a
\* value in 1..10000 for every option and environment value.
C12_BatchSizeCapped ==
  /\ \A i \in Positions("browse") :
       /\ trace[i].hitsPerPage <= BatchSizeCap
       /\ batchSize = 0 => trace[i].hitsPerPage = DefaultBatchSize
  /\ \A i \in Positions("save") \cup Positions("delete") :
       Carried(trace[i]) <= BatchSizeCap
  /\ \A parsed \in {0, MaxBatchSize, BatchSizeCap + 1} :
       getBatchSize(batchSize, parsed) \in 1..BatchSizeCap

\* C13: every bulk write call of every policy, upsert or delete, carries
\* at most batchSize records or identifiers.
C13_WritesWithinBatchSize ==
  \A i \in Positions("save") \cup Positions("delete") :
    Carried(trace[i]) <= HitsPerPage(batchSize)

(***************************************************************************)
(* Upserts, dry runs and the restore of a backup.                          *)
(***************************************************************************)
\* C11: every record passed to an upsert call, saveObjects of a policy or
\* replaceAllObjects of the restore, carries an objectID that is a string
\* and is not empty.
C11_UpsertsCarryObjectId ==
  \A i \in Positions("save") \cup Positions("replaceAllObjects") :
    \A k \in 1..Len(trace[i].records) :
      /\ trace[i].records[k].objectID.type = "string"
      /\ trace[i].records[k].objectID.s # ""

\* C14: a command that was invoked without --execute makes no store call
\* that changes the index.
C14_DryRunUnlessExecute == ~execute => Mutating = {}

\* The answers that affirm.
Affirmative == {"yes"}

\* C16: the restore asks for confirmation before it touches the index and
\* writes nothing unless the answer affirms; an answer that does not
\* affirm cancels the restore.
C16_RestoreNeedsAffirmation ==
  (~skipConfirmation /\ ~dryRun) =>
    /\ \A w \in Mutating : \E p \in Positions("prompt") : p < w
    /\ \A p \in Positions("prompt") :
         trace[p].ids[1] \notin Affirmative =>
           /\ Mutating = {}
           /\ pc \in {"records", "settings", "rules", "synonyms", "return"} => dryRun
           /\ result.returned => ~result.success

\* The call that replaces a component.
ReplaceCall ==
  [records |-> "replaceAllObjects", settings |-> "setSettings",
   rules |-> "saveRules", synonyms |-> "saveSynonyms"]

\* C17: a restore that succeeded has replaced every component whose file
\* was found by what the file holds, whatever that is, and has made no call
\* for a component whose file is absent; with no file at all the restore
\* fails and writes nothing.
C17_RestoreReplacesWhatItFinds ==
  /\ \A c \in DOMAIN files :
       ~files[c].found => Positions(ReplaceCall[c]) = {}
  /\ (\A c \in DOMAIN files : ~files[c].found) =>
       /\ Mutating = {}
       /\ result.returned => ~result.success
  /\ (pc = "done" /\ result.success) =>
       /\ \A c \in DOMAIN files :
            files[c].found =>
              \E i \in Positions(ReplaceCall[c]) :
                trace[i].status = "ok" /\ trace[i].records = files[c].content
       /\ files.records.found => index = files.records.content

\* C18: a run that ended with a fatal error, a store call or a file
\* operation having failed and execute() reporting success=false, ends the
\* process with a non-zero exit status.
C18_FatalExitsNonZero ==
  (/\ result.returned
   /\ ~result.success
   /\ Len(result.metrics.errors) > 0 \/ \E i \in 1..Len(trace) : trace[i].status = "failed")
    => exitCode > 0

(***************************************************************************)
(* What the identifier-rewrite policies change.                            *)
(***************************************************************************)
\* A value that is a string with something other than white space in it.
NonBlank(v) == v.type = "string" /\ Trim(v.s) # ""

\* The record with its objectID replaced.
Renamed(r, newObjectId) == [r EXCEPT !.objectID = Str(newObjectId)]

\* The scan, page by page, classifies as CHANGE exactly the scanned records
\* of the set change: the page loop collects, in scan order, each of them
\* with only its objectID replaced by newId[r], and its old objectID; an
\* upsert call carries exactly the records collected from the page before
\* it and a delete call exactly their old objectIDs, so that no other
\* record is passed to a call.
RewritesExactly(change, newId) ==
  /\ \A p \in Positions("processed") :
       LET hits == trace[p - 2].records
           changed == SelectSeq(hits, LAMBDA r : r \in change)
       IN /\ trace[p].records = [k \in 1..Len(changed) |-> Renamed(changed[k], newId[changed[k]])]
          /\ trace[p].ids = [k \in 1..Len(changed) |-> changed[k].objectID.s]
  /\ \A w \in Positions("save") :
       trace[w].records = trace[LastBefore("processed", w)].records
  /\ \A w \in Positions("delete") :
       trace[w].ids = trace[LastBefore("processed", w)].ids

\* The new objectID of replace-objectid-with-slug: derive(slug).
SlugNewId == [r \in Range(SlugCorpus) |-> generateUid(r.slug.s)]

\* The condition without the resource type.
SlugChangeAsStated ==
  {r \in Range(SlugCorpus) :
     /\ NonBlank(r.title)
     /\ NonBlank(r.slug)
     /\ r.objectID = Str(generateUid(r.title.s))
     /\ generateUid(r.slug.s) # r.objectID.s}

SchemaPathOf ==
  [t \in {resourceConfigs[i].resourceType : i \in 1..Len(resourceConfigs)} |->
     resourceConfigs[CHOOSE i \in 1..Len(resourceConfigs) :
                       resourceConfigs[i].resourceType = t].schemaPath]

\* The new objectID of replace-resource-objectid:
\* derive(schemaPath;resourceType;title;extUrl), an absent extUrl being
\* the empty string.
ResourceNewId ==
  [r \in Range(ResourceCorpus) |->
     IF NonBlank(r.resourceType) /\ r.resourceType.s \in DOMAIN SchemaPathOf /\ r.title.type = "string"
     THEN generateUid(SchemaPathOf[r.resourceType.s] \o ";" \o r.resourceType.s \o ";"
                        \o r.title.s \o ";" \o (IF r.extUrl.type = "string" THEN r.extUrl.s ELSE ""))
     ELSE ""]

ResourceChange ==
  {r \in Range(ResourceCorpus) :
     /\ r.objectID.type = "string"
     /\ NonBlank(r.title)
     /\ NonBlank(r.resourceType)
     /\ r.resourceType.s \in DOMAIN SchemaPathOf
     /\ r.objectID.s # ResourceNewId[r]}

Scanned == UNION {Range(trace[y].records) : y \in Positions("yield")}

\* The scanned records that share a non-blank slug.
SlugGroup(slug) == {r \in Scanned : NonBlank(r.slug) /\ r.slug.s = slug}

TitleDerived(r) == r.title.type = "string" /\ r.objectID.s = generateUid(r.title.s)

\* The slugs of the groups that are replaceable as stated: two or more
\* members, exactly one of them title-derived and another slug-derived.
ReplaceableSlugs ==
  {slug \in {r.slug.s : r \in {q \in Scanned : NonBlank(q.slug)}} :
     /\ Cardinality(SlugGroup(slug)) >= 2
     /\ Cardinality({r \in SlugGroup(slug) : TitleDerived(r)}) = 1
     /\ \E r \in SlugGroup(slug) : ~TitleDerived(r) /\ r.objectID.s = generateUid(slug)}

\* The title-derived member of a replaceable group.
TitleMember(slug) == CHOOSE r \in SlugGroup(slug) : TitleDerived(r)

\* C21: find-duplicate-slug upserts, for exactly the groups of two or more
\* records of one slug that hold exactly one title-derived member and
\* another, slug-derived member, the content of the title-derived member
\* under the slug-derived identifier, and deletes exactly the identifiers
\* of those title-derived members; no other record is in a call.
C21_DuplicateGroups ==
  policy = DuplicatePolicy =>
    /\ \A w \in Positions("save") :
         Range(trace[w].records) =
           {Renamed(TitleMember(slug), generateUid(slug)) : slug \in ReplaceableSlugs}
    /\ \A w \in Positions("delete") :
         Range(trace[w].ids) = {TitleMember(slug).objectID.s : slug \in ReplaceableSlugs}
    /\ (Success /\ ~dryRun /\ ReplaceableSlugs # {}) => Positions("delete") # {}

\* A run of a deleting policy whose selection is the set selected: no upsert
\* call; a delete call carries exactly the objectIDs of the selected
\* records, is the only one, and is made by an executing run that selected
\* something; the run that returns reports exactly the selected records.
DeletesExactly(selected) ==
  /\ Positions("save") = {}
  /\ \A w \in Positions("delete") : Range(trace[w].ids) = {r.objectID.s : r \in selected}
  /\ Cardinality(Positions("delete")) <= 1
  /\ (Success /\ ~dryRun /\ selected # {}) => Positions("delete") # {}
  /\ Success => /\ Range(acc) = selected
                /\ result.metrics.recordsWithChanges = Cardinality(selected)

\* A key that is missing, null, undefined or the empty string.
Missing(v) == v.type \in {"undefined", "null"} \/ (v.type = "string" /\ v.s = "")

\* A key that is missing, null, undefined or a string of white space only.
Blank(v) == v.type \in {"undefined", "null"} \/ (v.type = "string" /\ Trim(v.s) = "")

\* The title an objectID is compared with: the empty string when the record
\* has no title.
TitleOrEmpty(r) == IF r.title.type = "string" THEN r.title.s ELSE ""

C23_PatternDeletes ==
  policy = PatternPolicy =>
    /\ DeletesExactly({r \in Scanned : r[PatternKey].type = "string" /\ RegexTest(r[PatternKey].s)})
    /\ dryRun => Positions("delete") = {}

\* An executing run that has deleted, after scanning a record whose field is
\* missing and a record whose field is a string that does not match.
C23_Witness ==
  /\ policy = PatternPolicy
  /\ Success
  /\ Positions("delete") # {}
  /\ \E r \in Scanned : r[PatternKey].type # "string"
  /\ \E r \in Scanned : r[PatternKey].type = "string" /\ ~RegexTest(r[PatternKey].s)

(***************************************************************************)
(* What the date policies change.                                          *)
(***************************************************************************)
\* The top-level scalar fields of r, other than objectID, whose value
\* converts and is not already normalized.
SanitizedFields(r) ==
  {k \in Range(FieldOrder) :
     /\ r[k].type \in {"string", "number"}
     /\ attemptDateConversion(SanitizePolicy, r[k]).ok
     /\ ~(/\ r[k].type = "number"
          /\ LessEq(r[k].n, MaxTimestamp)
          /\ r[k].n = attemptDateConversion(SanitizePolicy, r[k]).v)}

\* r with each of those fields holding its converted seconds value.
Sanitized(r) ==
  [k \in DOMAIN r |->
     IF k \in SanitizedFields(r) THEN Num(attemptDateConversion(SanitizePolicy, r[k]).v)
     ELSE r[k]]

Times1000(a) == B((a.hi * 1000) + (a.lo \div 10^6), (a.lo % 10^6) * 1000)

TimesMillion(a) == B((a.hi * 10^6) + (a.lo \div 1000), (a.lo % 1000) * 10^6)

\* The seconds values the conversion is tried on: the ends of the accepted
\* range, of the window that starts with the year 2000, and the values next
\* to where the milliseconds and the microseconds of a value change class.
SecondsSamples ==
  {B(0, 1), B(0, 1000), B(0, 9999999), B(0, 10000000), B(0, 946684800),
   B(0, 999999999), B(1, 0), B(1, 705276800), B(2, 147483647)}

NumberInputs ==
  {Num(t) : t \in SecondsSamples}
    \cup {Num(Times1000(t)) : t \in SecondsSamples}
    \cup {Num(TimesMillion(t)) : t \in SecondsSamples}
    \cup {Num(Zero), Num(B(-1, 999999999)), Num(B(-10, 0)), Num(Half(0, 0)), Num(Half(0, 1)),
          Num(B(2, 147483648)), Num(B(9, 999999999)), Num(B(10, 0)),
          Num(B(999999, 999999999)), Num(B(1000000, 0)), Num(B(2147, 483647999)),
          Num(B(2147, 483648000)), Num(Half(1705, 276800000)), NaN, Infinity}

StringInputs ==
  {Str("1705276800"), Str(" 1705276800 "), Str("1705276800abc"), Str("1705276800.5"),
   Str("1705276800000"), Str("1705276800000000"), Str("946684799"), Str("946684800"),
   Str("2147483647"), Str("2147483648"), Str("2147483647000"), Str("2147483647999"),
   Str("2024-01-15"), Str("soon"), Str(""), Str(" ")}

\* parseStringDate up to its numeric step: what the step returns, null when
\* the method goes on to the date formats.
numericTimestamp(pol, x) ==
  IF pol = NormalizePolicy THEN NormalizeNumeric(parseFloat(Chars(Trim(x))))
  ELSE IF Len(Chars(Trim(x))) < 4 THEN None
  ELSE SanitizeNumeric(parseFloat(Chars(Trim(x))))

\* One call: what was handed over, what came back, what normalizeTimestamp
\* made of a finite number, and whether the caller finds the value already
\* normalized.
Outcome(v, res, normalized) ==
  [argument |-> v, result |-> res, normalized |-> normalized,
   alreadyNormalized |-> res.ok /\ isAlreadyNormalizedTimestamp(v, res.v)]

NumberOutcome(pol, v) ==
  Outcome(v, attemptDateConversion(pol, v),
          IF v.s = "" THEN Some(normalizeTimestamp(v.n)) ELSE None)

InitConvert ==
  /\ policy \in DatePolicies
  /\ argument \in NumberInputs \cup StringInputs
  /\ outcomes = <<>>
  /\ pc = "convert"
  /\ execute = FALSE
  /\ dryRun = TRUE
  /\ batchSize = 0
  /\ skipConfirmation = FALSE
  /\ files = NoFiles
  /\ indexName = "products"
  /\ keys = ""
  /\ rules = 0
  /\ synonyms = 0
  /\ backupData = NoBackupData
  /\ items = <<>>
  /\ resultList = <<>>
  /\ inflight = {}
  /\ settled = <<>>
  /\ batchNumber = 0
  /\ maxConcurrency = DefaultConcurrency
  /\ index = <<>>
  /\ index0 = <<>>
  /\ runs = <<>>
  /\ snapshot = <<>>
  /\ cursor = 0
  /\ page = <<>>
  /\ metrics = initializeMetrics
  /\ updatedRecords = <<>>
  /\ oldObjectIds = <<>>
  /\ trace = <<>>
  /\ result = NoResult
  /\ exitCode = -1
  /\ acc = <<>>
  /\ analysis = initializeDateMetrics
  /\ batchIndex = 0

\* attemptDateConversion(value) for a number.
ConvertNumber ==
  /\ pc = "convert"
  /\ argument.type = "number"
  /\ outcomes' = <<NumberOutcome(policy, argument)>>
  /\ pc' = "converted"
  /\ UNCHANGED <<archive, batches, argument, options, exitCode, index, snapshot, cursor, page, metrics,
                 updatedRecords, oldObjectIds, trace, result, history, collect>>

\* parseStringDate(value) up to the end of its numeric step.
ClassifyString ==
  /\ pc = "convert"
  /\ argument.type = "string"
  /\ outcomes' = <<Outcome(argument, numericTimestamp(policy, argument.s), None)>>
  /\ pc' = "converted"
  /\ UNCHANGED <<archive, batches, argument, options, exitCode, index, snapshot, cursor, page, metrics,
                 updatedRecords, oldObjectIds, trace, result, history, collect>>

\* The fix writes the converted value into the field, and the next run
\* hands that number to the conversion.
ConvertAgain ==
  /\ pc = "converted"
  /\ outcomes[1].result.ok
  /\ argument' = Num(outcomes[1].result.v)
  /\ outcomes' = Append(outcomes, NumberOutcome(policy, argument'))
  /\ pc' = "reconverted"
  /\ UNCHANGED <<archive, batches, options, exitCode, index, snapshot, cursor, page, metrics,
                 updatedRecords, oldObjectIds, trace, result, history, collect>>

NextConvert ==
  \/ ConvertNumber
  \/ ClassifyString
  \/ ConvertAgain

SpecConvert == InitConvert /\ [][NextConvert]_vars

(***************************************************************************)
(* What the conversion returns.                                            *)
(***************************************************************************)
Succ(a) == IF a.lo = 10^9 - 1 THEN B(a.hi + 1, 0) ELSE B(a.hi, a.lo + 1)

\* s is the integer with 1000 * s <= v < 1000 * (s + 1), and likewise for a
\* million: the floor of the quotient.
IsFloorOfThousandth(s, v) ==
  s.half = 0 /\ LessEq(Times1000(s), v) /\ Less(v, Times1000(Succ(s)))

IsFloorOfMillionth(s, v) ==
  s.half = 0 /\ LessEq(TimesMillion(s), v) /\ Less(v, TimesMillion(Succ(s)))

\* The calls that were handed a number, and those handed a string.
NumberCalls == {i \in 1..Len(outcomes) : outcomes[i].argument.type = "number"}

StringCalls == {i \in 1..Len(outcomes) : outcomes[i].argument.type = "string"}

\* C25: for a number v the normalization returns null when v is not finite
\* or v <= 0; otherwise s is floor(v / 1,000,000) when v > 999,999,999,999,999,
\* floor(v / 1000) when v > 9,999,999,999 and v otherwise, and the result is
\* s when 1 <= s <= 2147483647 and null otherwise; normalizeTimestamp
\* returns every input up to 9,999,999,999 unchanged.
C25_NumericNormalization ==
  \A i \in NumberCalls :
    LET v == outcomes[i].argument
        s == outcomes[i].normalized.v
    IN IF v.s # "" \/ LessEq(v.n, Zero)
       THEN /\ ~outcomes[i].result.ok
            /\ v.s = "" => outcomes[i].normalized = Some(v.n)
       ELSE /\ Less(B(999999, 999999999), v.n) => IsFloorOfMillionth(s, v.n)
            /\ (Less(B(9, 999999999), v.n) /\ LessEq(v.n, B(999999, 999999999))) =>
                 IsFloorOfThousandth(s, v.n)
            /\ LessEq(v.n, B(9, 999999999)) => s = v.n
            /\ outcomes[i].result =
                 IF LessEq(B(0, 1), s) /\ LessEq(s, MaxTimestamp) THEN Some(s) ELSE None

\* The seconds values from 2000-01-01 on.
InWindow(t) == LessEq(B(0, 946684800), t) /\ LessEq(t, MaxTimestamp)

\* C26: for every integer t in [946684800, 2147483647], the numbers
\* t * 1000 and t * 1,000,000 each normalize back to exactly t.
C26_MagnitudeRoundTrip ==
  \A i \in NumberCalls : \A t \in SecondsSamples :
    (InWindow(t) /\ outcomes[i].argument \in {Num(Times1000(t)), Num(TimesMillion(t))}) =>
      outcomes[i].result = Some(t)

\* C27 as stated: for every integer t with 1 <= t <= 2147483647,
\* normalize(t) = t and normalize(t * 1000) = t.
C27_Original ==
  \A i \in NumberCalls : \A t \in SecondsSamples :
    outcomes[i].argument \in {Num(t), Num(Times1000(t))} => outcomes[i].result = Some(t)

\* C27: for every integer t with 1 <= t <= 2147483647, normalize(t) = t,
\* and for every such t from 10,000,000 on normalize(t * 1000) = t.
C27_Idempotence ==
  \A i \in NumberCalls : \A t \in SecondsSamples :
    /\ outcomes[i].argument = Num(t) => outcomes[i].result = Some(t)
    /\ (LessEq(B(0, 10000000), t) /\ outcomes[i].argument = Num(Times1000(t))) =>
         outcomes[i].result = Some(t)

\* The milliseconds of a seconds value were converted, and the seconds
\* value that came back was converted again.
C27_Witness ==
  /\ Len(outcomes) = 2
  /\ outcomes[1].argument = Num(Times1000(B(1, 705276800)))
  /\ outcomes[2].argument = Num(B(1, 705276800))
  /\ outcomes[2].result = Some(B(1, 705276800))

\* Whether the characters are, in their entirety, an unsigned number.
FullNumber(cs) ==
  \E k \in 1..Len(cs) :
    /\ \A j \in 1..k : IsDigit(cs[j])
    /\ k = Len(cs) \/ (k + 2 = Len(cs) /\ cs[k + 1] = "." /\ IsDigit(cs[k + 2]))

\* C30: of a string, after trimming, only one that is in its entirety a
\* finite positive number n is classified numerically: floor(n) when
\* 946684800 <= n <= 2147483647, floor(n / 1000) when
\* 946684800000 <= n <= 2147483647000; any other string gets no timestamp
\* from the numeric step.
C30_NumericStrings ==
  \A i \in StringCalls :
    LET cs == Chars(Trim(outcomes[i].argument.s))
        n == parseFloat(cs).v
    IN outcomes[i].result =
         IF FullNumber(cs) /\ InWindow(n) THEN Some(Floor(n))
         ELSE IF FullNumber(cs) /\ Between(B(946, 684800000), n, B(2147, 483647000))
           THEN Some(FloorDiv1000(n))
         ELSE None

(***************************************************************************)
(* What normalize-date-field counts.                                       *)
(***************************************************************************)
\* The records the scan has yielded, in order.
Yielded ==
  LET F[i \in 0..Len(trace)] ==
        IF i = 0 THEN <<>>
        ELSE IF trace[i].op = "yield" THEN F[i - 1] \o trace[i].records
        ELSE F[i - 1]
  IN F[Len(trace)]

\* Those of them the analysis has counted.
Analysed == Range(SubSeq(Yielded, 1, analysis.processedRecords))

\* The analysed records by what their field holds.
WithEmptyField ==
  {r \in Analysed : r[fieldName].type \in {"null", "undefined"} \/ r[fieldName] = Str("")}

WithValidField ==
  {r \in Analysed \ WithEmptyField :
     /\ r[fieldName].type = "number"
     /\ attemptDateConversion(NormalizePolicy, r[fieldName]) = Some(r[fieldName].n)}

WithConvertibleField ==
  {r \in Analysed \ (WithEmptyField \cup WithValidField) :
     attemptDateConversion(NormalizePolicy, r[fieldName]).ok}

WithInvalidField ==
  {r \in Analysed \ WithEmptyField : ~attemptDateConversion(NormalizePolicy, r[fieldName]).ok}

\* C29: in normalize-date-field a field that is null, undefined or the
\* empty string converts to null and is counted as empty, never as invalid,
\* never as an error, and is never written; every valid scanned record is
\* counted once, in exactly one of empty, already valid, convertible and
\* invalid, so that processed = empty + found and found = already valid +
\* convertible + invalid; the records to fix are the convertible ones.
C29_NormalizeAccounting ==
  policy = NormalizePolicy =>
    /\ analysis.processedRecords <= Len(Yielded)
    /\ Success => analysis.processedRecords = Len(Yielded)
    /\ \A r \in WithEmptyField : ~attemptDateConversion(NormalizePolicy, r[fieldName]).ok
    /\ analysis.fieldEmpty = Cardinality(WithEmptyField)
    /\ analysis.fieldValidTimestamps = Cardinality(WithValidField)
    /\ analysis.fieldConvertibleDates = Cardinality(WithConvertibleField)
    /\ analysis.fieldInvalidDates = Cardinality(WithInvalidField)
    /\ {analysis.errors[i].record : i \in 1..Len(analysis.errors)} = WithInvalidField
    /\ analysis.processedRecords = analysis.fieldEmpty + analysis.fieldFound
    /\ analysis.fieldFound = analysis.fieldValidTimestamps + analysis.fieldConvertibleDates
                               + analysis.fieldInvalidDates
    /\ {acc[i].record : i \in 1..Len(acc)} = WithConvertibleField
    /\ Len(acc) = Cardinality(WithConvertibleField)
    /\ \A w \in Positions("save") : \A i \in 1..Len(trace[w].records) :
         trace[w].records[i].objectID \notin {r.objectID : r \in WithEmptyField \cup WithInvalidField}

\* An executing run that returned after scanning a record whose field is
\* null, one whose field is the empty string and one to fix, which it wrote.
C29_Witness ==
  /\ policy = NormalizePolicy
  /\ Success
  /\ Positions("save") # {}
  /\ \E r \in WithEmptyField : r[fieldName].type = "null"
  /\ \E r \in WithEmptyField : r[fieldName] = Str("")
  /\ WithConvertibleField # {}

\* The records of an index that normalize-date-field flags: the field
\* converts and does not hold, as a number, the value it converts to.
Flagged(idx) ==
  {r \in Range(idx) :
     /\ r.objectID.type = "string"
     /\ attemptDateConversion(NormalizePolicy, r[fieldName]).ok
     /\ r[fieldName] # Num(attemptDateConversion(NormalizePolicy, r[fieldName]).v)}

\* C28: normalize-date-field finds a field already normalized only when it
\* holds a number in (0, 2147483647] that equals the converted value; a
\* convertible value in another representation is flagged for update with
\* its seconds value and written as that number; a second run, on the
\* index the update was applied to, finds every such field already
\* normalized and issues no write.
C28_NormalizeConverges ==
  policy = NormalizePolicy =>
    /\ \A r \in WithValidField :
         Less(Zero, r[fieldName].n) /\ LessEq(r[fieldName].n, MaxTimestamp)
    /\ \A r \in Analysed \cap Flagged(index0) :
         \E i \in 1..Len(acc) :
           /\ acc[i].record = r
           /\ acc[i].sanitizations =
                <<Sanitization(fieldName, r[fieldName],
                               attemptDateConversion(NormalizePolicy, r[fieldName]).v)>>
    /\ \A w \in Positions("save") : \A i \in 1..Len(trace[w].records) :
         \E r \in Flagged(index0) :
           trace[w].records[i] =
             [r EXCEPT ![fieldName] = Num(attemptDateConversion(NormalizePolicy, r[fieldName]).v)]
    /\ (Len(runs) = 1 /\ runs[1].success) =>
         /\ Positions("save") = {}
         /\ \A r \in Analysed :
              (\E q \in Flagged(runs[1].start) : q.objectID = r.objectID) => r \in WithValidField

(***************************************************************************)
(* backup-index and restore-index.                                         *)
(***************************************************************************)
\* C31: when backup-index or restore-index is invoked without an index
\* name, the action prompts for the index name and, given a non-empty
\* answer, goes on to back up or restore that index: a command that has
\* ended was asked the name, and ended before its work only on a blank
\* answer.
C31_PromptsForIndexName ==
  (indexName = "" /\ pc \in {"exited", "done"}) =>
    \E p \in Positions("promptIndexName") :
      Trim(trace[p].ids[1]) # "" => pc = "done"

\* C32: a backup that succeeded has collected all records, all rules and
\* all synonyms the index holds.
C32_BackupIsComplete ==
  (policy = BackupCommand /\ pc = "done" /\ result.success) =>
    /\ backupData.records = index
    /\ backupData.rules = rules
    /\ backupData.synonyms = synonyms

(***************************************************************************)
(* Identifiers that meet: a new objectID that another record carries.      *)
(***************************************************************************)
\* C33: after a failure-free executing run of an identifier-rewrite policy
\* the index holds, for every record classified CHANGE, a record under its
\* new objectID with that record's content; no delete call removes an
\* identifier that an earlier upsert of the run wrote, and no upsert
\* writes under the objectID of a record that the run scans later.
C33_RewriteKeepsEveryChange ==
  (Rewriting /\ ~dryRun /\ Success /\ Failed = {}) =>
    /\ \A p \in Positions("processed") : \A k \in 1..Len(trace[p].records) :
         trace[p].records[k] \in Range(index)
    /\ \A d \in Positions("delete") : \A w \in Positions("save") :
         w < d => \A k \in 1..Len(trace[w].records) :
                    trace[w].records[k].objectID.s \notin Range(trace[d].ids)
    /\ \A w \in Positions("save") : \A y \in Positions("yield") :
         w < y => \A k \in 1..Len(trace[w].records) : \A n \in 1..Len(trace[y].records) :
                    trace[w].records[k].objectID # trace[y].records[n].objectID

(***************************************************************************)
(* find-invalid-records with a key list that parses to nothing.            *)
(***************************************************************************)
\* C34: every record find-invalid-records selects or deletes has at least
\* one checked key that is missing or invalid; a --keys value that parses
\* to an empty key list selects and deletes no record.
C34_NoSelectionOnEmptyCheck ==
  policy = InvalidPolicy =>
    /\ \A i \in 1..Len(acc) :
         \E k \in 1..Len(checkedKeys) : Blank(acc[i][checkedKeys[k]])
    /\ \A w \in Positions("delete") : \A r \in Scanned :
         r.objectID.s \in Range(trace[w].ids) =>
           \E k \in 1..Len(checkedKeys) : Blank(r[checkedKeys[k]])
    /\ checkedKeys = <<>> => (acc = <<>> /\ Positions("delete") = {})

(***************************************************************************)
(* The values the date policies record and write.                          *)
(***************************************************************************)
\* An integer in [1, 2147483647].
IntegerSeconds(v) == v.half = 0 /\ LessEq(B(0, 1), v) /\ LessEq(v, MaxTimestamp)

\* C35: every value that normalize-date-field or sanitize-date-values
\* records as a converted value, and every value they write into a record
\* field, is an integer in [1, 2147483647].
C35_ConvertedValuesInRange ==
  policy \in DatePolicies =>
    /\ \A i \in 1..Len(acc) : \A k \in 1..Len(acc[i].sanitizations) :
         IntegerSeconds(acc[i].sanitizations[k].convertedValue)
    /\ \A w \in Positions("save") : \A n \in 1..Len(trace[w].records) :
         \E i \in 1..Len(acc) :
           /\ acc[i].record.objectID = trace[w].records[n].objectID
           /\ \A k \in 1..Len(acc[i].sanitizations) :
                LET written == trace[w].records[n][acc[i].sanitizations[k].fieldPath]
                IN written.type = "number" /\ written.s = "" /\ IntegerSeconds(written.n)

(***************************************************************************)
(* A dry run as a preview.                                                 *)
(***************************************************************************)
\* The changes a policy finds in an index, whatever the mode and the page
\* size: the records to upsert and the identifiers to delete.
Preview(pol, idx) ==
  LET valid == ValidRecords(pol, SelectSeq(idx, LAMBDA r : StoreMatches(Filters(pol), r)))
      fixes == LET F[i \in 0..Len(valid)] ==
                     IF i = 0 THEN [analysis |-> initializeDateMetrics, acc |-> <<>>]
                     ELSE analyzeRecord(pol, Counted(F[i - 1]), valid[i])
               IN F[Len(valid)].acc
  IN IF pol \in RewritePolicies
     THEN [saves |-> Range(UpdatedRecordsOf(PageResults(pol, valid))),
           deletes |-> Range(OldObjectIdsOf(PageResults(pol, valid)))]
     ELSE IF pol \in CollectPolicies
     THEN [saves |-> Range(ToSave(pol, Collected(pol, valid))),
           deletes |-> Range(ToDelete(pol, Collected(pol, valid)))]
     ELSE [saves |-> {ApplyAll(fixes[i].record, fixes[i].sanitizations) : i \in 1..Len(fixes)},
           deletes |-> {}]

\* The changes the run has classified: what its report lists.
Reported ==
  IF policy \in RewritePolicies
  THEN [saves |-> UNION {Range(trace[p].records) : p \in Positions("processed")},
        deletes |-> UNION {Range(trace[p].ids) : p \in Positions("processed")}]
  ELSE IF policy \in CollectPolicies
  THEN [saves |-> Range(ToSave(policy, acc)), deletes |-> Range(ToDelete(policy, acc))]
  ELSE [saves |-> {ApplyAll(acc[i].record, acc[i].sanitizations) : i \in 1..Len(acc)},
        deletes |-> {}]

\* The changes the run has written.
Written ==
  [saves |-> UNION {Range(trace[w].records) : w \in Positions("save")},
   deletes |-> UNION {Range(trace[w].ids) : w \in Positions("delete")}]

\* C36: a dry run and an executing run of a policy on the same index
\* classify the same records as changes with the same new values: a run
\* that ended without a rejected store call has classified the changes
\* that the index alone determines, an executing run has written exactly
\* those, and a dry run has written none.
C36_DryRunIsFaithfulPreview ==
  (pc = "done" /\ Failed = {}) =>
    /\ Reported = Preview(policy, index0)
    /\ ~dryRun => Written = Reported
    /\ dryRun => Written = [saves |-> {}, deletes |-> {}]

(***************************************************************************)
(* BatchProcessor called on its own.                                       *)
(***************************************************************************)
MaxItems == 3

MaxConcurrency == 2

\* The turns of the loop of processItems that are told apart: a call of
\* more turns keeps running, and what it logs and counts stays as the turn
\* of this number left it.
MaxBatches == 5

ItemValues == {"a", "b"}

ItemLists == UNION {[1..n -> ItemValues] : n \in 0..MaxItems}

ProcessItemsCall == "processItems"

ProcessInParallelCall == "processInParallel"

Max(a, b) == IF a > b THEN a ELSE b

\* Array.prototype.slice(start, end): a negative bound counts from the end
\* of the array, and both bounds are clamped to the array.
slice(s, start, end) ==
  LET from == IF start < 0 THEN Max(Len(s) + start, 0) ELSE Min(start, Len(s))
      to == IF end < 0 THEN Max(Len(s) + end, 0) ELSE Min(end, Len(s))
  IN SubSeq(s, from + 1, to)

\* The constructor: this.options.batchSize = options.batchSize || 1000.
OptionsBatchSize(bs) == IF bs # 0 THEN bs ELSE DefaultBatchSize

\* What the processor resolves to for a batch, or for an item.
ProcessorResult(input, number) == [input |-> input, number |-> number]

\* A join that hands over the results in the order the promises settled.
InSettleOrder(batch, first, order) ==
  [k \in 1..Len(order) |-> ProcessorResult(batch[order[k] - first + 1], order[k])]

\* await Promise.all(batchPromises): the results in the order of the
\* promises, whatever the order they settled in.
PromiseAll(batch, first, order) ==
  [k \in 1..Len(batch) |-> ProcessorResult(batch[k], first + k - 1)]

InitBatch ==
  /\ policy \in {ProcessItemsCall, ProcessInParallelCall}
  /\ items \in ItemLists
  /\ batchSize \in IF policy = ProcessItemsCall THEN (0 - MaxBatchSize)..MaxItems ELSE {0}
  /\ maxConcurrency \in IF policy = ProcessInParallelCall
                        THEN 1..MaxConcurrency \cup {DefaultConcurrency}
                        ELSE {DefaultConcurrency}
  /\ pc = "loop"
  /\ batchIndex = 0
  /\ batchNumber = 0
  /\ resultList = <<>>
  /\ inflight = {}
  /\ settled = <<>>
  /\ trace = <<>>
  /\ dryRun = FALSE
  /\ execute = FALSE
  /\ skipConfirmation = FALSE
  /\ files = NoFiles
  /\ indexName = "products"
  /\ keys = ""
  /\ rules = 0
  /\ synonyms = 0
  /\ backupData = NoBackupData
  /\ index = <<>>
  /\ index0 = <<>>
  /\ runs = <<>>
  /\ snapshot = <<>>
  /\ cursor = 0
  /\ page = <<>>
  /\ metrics = initializeMetrics
  /\ updatedRecords = <<>>
  /\ oldObjectIds = <<>>
  /\ result = NoResult
  /\ exitCode = -1
  /\ acc = <<>>
  /\ analysis = initializeDateMetrics
  /\ argument = Undef
  /\ outcomes = <<>>

\* processItems, one turn of the loop up to the call of the processor.  The
\* trace entry holds the batch number and the batch.
ProcessBatch ==
  /\ policy = ProcessItemsCall
  /\ pc = "loop"
  /\ batchIndex < Len(items)
  /\ batchNumber' = Min(batchNumber + 1, MaxBatches)
  /\ LET call == Event("processor", "pending", batchNumber', 0, <<>>,
                       slice(items, batchIndex, batchIndex + OptionsBatchSize(batchSize)))
     IN trace' = IF batchNumber < MaxBatches
                 THEN Append(trace, call)
                 ELSE [trace EXCEPT ![Len(trace)] = call]
  /\ pc' = "await_processor"
  /\ UNCHANGED <<archive, conversion, options, exitCode, index, metrics, result, scan, history,
                 acc, analysis, batchIndex, items, resultList, inflight, settled,
                 maxConcurrency>>

\* The processor resolves: results.push(result), and the loop moves on.  An
\* index at or below -items.length stands for every index below it: the
\* slice taken from there is empty and the loop condition holds.
ProcessorResolves ==
  /\ pc = "await_processor"
  /\ resultList' = IF Len(resultList) < MaxBatches
                   THEN Append(resultList, ProcessorResult(trace[Len(trace)].ids, batchNumber))
                   ELSE resultList
  /\ trace' = [trace EXCEPT ![Len(trace)].status = "ok"]
  /\ batchIndex' = Max(batchIndex + OptionsBatchSize(batchSize), 0 - Len(items))
  /\ pc' = "loop"
  /\ UNCHANGED <<archive, conversion, options, exitCode, index, metrics, result, scan, history,
                 acc, analysis, items, inflight, settled, batchNumber, maxConcurrency>>

\* The processor rejects: onError(errorObj, batchNumber), throw errorObj.
ProcessorRejects ==
  /\ pc = "await_processor"
  /\ trace' = Append([trace EXCEPT ![Len(trace)].status = "failed"],
                     Event("onError", "ok", batchNumber, 0, <<>>, <<>>))
  /\ pc' = "threw"
  /\ UNCHANGED <<archive, batches, conversion, options, exitCode, index, metrics, result, scan,
                 history, collect>>

\* The loop condition fails: return results.
ReturnResults ==
  /\ pc = "loop"
  /\ batchIndex >= Len(items)
  /\ pc' = "returned"
  /\ UNCHANGED <<archive, batches, conversion, options, exitCode, index, metrics, result, scan,
                 history, collect, trace>>

\* processInParallel, one turn of the loop up to the await: batch.map calls
\* the processor on every item of the chunk, with the index i + index.
StartChunk ==
  /\ policy = ProcessInParallelCall
  /\ pc = "loop"
  /\ batchIndex < Len(items)
  /\ LET batch == slice(items, batchIndex, batchIndex + maxConcurrency)
     IN /\ trace' = trace \o [k \in 1..Len(batch) |->
                                Event("processor", "pending", batchIndex + k - 1, 0,
                                      <<>>, <<batch[k]>>)]
        /\ inflight' = {batchIndex + k - 1 : k \in 1..Len(batch)}
  /\ pc' = "await_all"
  /\ UNCHANGED <<archive, conversion, options, exitCode, index, metrics, result, scan, history,
                 collect, items, resultList, settled, batchNumber, maxConcurrency>>

\* One invocation completes; the invocations of a chunk complete in any
\* order, also after another one has made the call fail.
InvocationResolves ==
  /\ \E k \in inflight :
       /\ inflight' = inflight \ {k}
       /\ settled' = Append(settled, k)
       /\ trace' = Append(trace, Event("settle", "ok", k, 0, <<>>, <<>>))
  /\ UNCHANGED <<archive, conversion, options, exitCode, index, metrics, result, scan, history,
                 collect, pc, items, resultList, batchNumber, maxConcurrency>>

\* One invocation rejects: Promise.all rejects with it and the call throws,
\* whatever is still in flight.
InvocationRejects ==
  /\ \E k \in inflight :
       /\ inflight' = inflight \ {k}
       /\ trace' = Append(trace, Event("settle", "failed", k, 0, <<>>, <<>>))
  /\ pc' = "threw"
  /\ UNCHANGED <<archive, conversion, options, exitCode, index, metrics, result, scan, history,
                 collect, items, resultList, settled, batchNumber, maxConcurrency>>

\* Every invocation of the chunk has resolved: results.push(...batchResults).
JoinChunk ==
  /\ pc = "await_all"
  /\ inflight = {}
  /\ LET batch == slice(items, batchIndex, batchIndex + maxConcurrency)
     IN resultList' = resultList \o
                        PromiseAll(batch, batchIndex,
                                   SubSeq(settled, Len(settled) - Len(batch) + 1, Len(settled)))
  /\ batchIndex' = batchIndex + maxConcurrency
  /\ pc' = "loop"
  /\ UNCHANGED <<archive, conversion, options, exitCode, index, metrics, result, scan, history,
                 acc, analysis, trace, items, inflight, settled, batchNumber, maxConcurrency>>

NextBatch ==
  \/ ProcessBatch
  \/ ProcessorResolves
  \/ ProcessorRejects
  \/ ReturnResults
  \/ StartChunk
  \/ InvocationResolves
  \/ InvocationRejects
  \/ JoinChunk

SpecBatch == InitBatch /\ [][NextBatch]_vars

\* A pending step is run: the event loop runs the continuation of every
\* promise that settles, and the processor is taken to settle.
SpecBatchFair == SpecBatch /\ WF_vars(NextBatch)

\* The calls of the processor, in the order they were made.
ProcessorCalls == SelectSeq(trace, LAMBDA e : e.op = "processor")

\* The batches of the first n calls, one after the other.
Concatenated(n) ==
  LET F[k \in 0..n] == IF k = 0 THEN <<>> ELSE F[k - 1] \o ProcessorCalls[k].ids
  IN F[n]

\* C37: processItems calls the processor on consecutive slices of at most
\* batchSize items in input order, numbered 1, 2, ...; when it returns the
\* slices concatenated are the input and there is one result per slice, in
\* order; when a call fails onError is called once with that batch number
\* and nothing is processed after it.
C37_ProcessItemsSlices ==
  policy = ProcessItemsCall =>
    LET n == Len(ProcessorCalls)
        errors == Positions("onError")
    IN /\ \A k \in 1..n :
            /\ ProcessorCalls[k].cursor = k
            /\ Len(ProcessorCalls[k].ids) <= OptionsBatchSize(batchSize)
            /\ Concatenated(k) = SubSeq(items, 1, Len(Concatenated(k)))
       /\ pc = "returned" =>
            /\ Concatenated(n) = items
            /\ Len(resultList) = n
            /\ \A k \in 1..n : resultList[k] = ProcessorResult(ProcessorCalls[k].ids, k)
       /\ pc = "threw" =>
            /\ Cardinality(errors) = 1
            /\ \A e \in errors : e = Len(trace) /\ trace[e].cursor = n
            /\ ProcessorCalls[n].status = "failed"
       /\ pc # "threw" => errors = {}

\* C38: processItems terminates, by returning or by throwing, for every
\* item list and every batch size it can be constructed with.
C38_ProcessItemsTerminates ==
  policy = ProcessItemsCall ~> pc \in {"returned", "threw"}

====
